---- MODULE Spec2Model ----
(***************************************************************************)
(* Model of the pull-request reviewer: ReviewCrew (crew_orchestrator.py),  *)
(* the platform adapters' fetch, DiffParser (diff_parser.py) and the       *)
(* construction of the Retriever / VectorStore the crew owns; the static   *)
(* methods of DiffParser called on their own; and KnowledgeBaseIndexer     *)
(* (indexer.py) writing into the VectorStore (vector_store.py).            *)
(*                                                                         *)
(* Text is modelled as sequences of tokens.  A URL is the sequence of its  *)
(* "/"-separated segments; a patch is the sequence of its lines, each line *)
(* a record giving its kind and what the diff reader takes from it; an     *)
(* error message (str(e)) is a sequence of message parts.  Optional values *)
(* (Python None) are sequences of length 0 or 1.                           *)
(***************************************************************************)
EXTENDS Integers, Sequences, FiniteSets, Bags, TLC

VARIABLES
    crew_state,     \* "absent" | "ready" | "init_failed": outcome of ReviewCrew()
    store_up,       \* whether the vector store backend can be opened
    bitbucket_client, \* whether BitbucketAdapter has a client (credentials configured)
    run,            \* number of review_pull_request calls made on this crew
    pc,             \* position inside review_pull_request
    pr_url,         \* argument pr_url
    platform,       \* argument / local platform (optional)
    pr,             \* local pr (optional PullRequest)
    context,        \* local context (optional dict)
    task_idx,       \* index in the crew's task list of the task being executed
    task_input,     \* per task: the context handed to its agent (optional)
    task_output,    \* per task: Task.output (NoOutput until written)
    failed_at,      \* where the exception caught at line 291 was raised ("" if none)
    result,         \* the dict returned to the caller (optional)
    dp_patch,       \* a caller of DiffParser: the patch text it holds
    dp_hunks,       \* ... the hunk list it holds (optional)
    dp_summary,     \* ... what get_change_summary returned (optional)
    dp_functions,   \* ... what extract_functions returned (optional)
    ck_content,     \* a caller of _chunk_document: argument content
    ck_size,        \* ... argument chunk_size
    ck_chunks,      \* ... the list returned (optional)
    kb,             \* the knowledge_base directories on disk, by collection name
    store,          \* the VectorStore's collections: name -> (id -> record)
    ix_pc,          \* position inside index_all: "idle", a collection name, "stats"
    ix_run_no,      \* number of index_all calls made
    ix_cur,         \* the current (or last) index_all call: what it read and submitted
    ix_prev,        \* the index_all call before it, its counts left out (optional)
    rt_call,        \* a caller of Retriever: the query method it called, with arguments (optional)
    rt_returned,    \* ... what the call returned (optional)
    em_texts,       \* a caller of EmbeddingGenerator.embed_text: argument text (a list)
    em_returned,    \* ... the outcome of the call (optional)
    cix,            \* concurrent reset_and_reindex runs on one store: per run, its position
    crv             \* concurrent review_pull_request runs: per run, its locals

crew_vars == <<crew_state, store_up, bitbucket_client, run, pc, pr_url, platform, pr,
               context, task_idx, task_input, task_output, failed_at, result>>

diff_vars == <<dp_patch, dp_hunks, dp_summary, dp_functions>>

chunk_vars == <<ck_content, ck_size, ck_chunks>>

indexer_vars == <<kb, store, ix_pc, ix_run_no, ix_cur, ix_prev>>

retriever_vars == <<rt_call, rt_returned>>

embed_vars == <<em_texts, em_returned>>

rest_vars == <<retriever_vars, embed_vars, cix, crv>>

index_vars == <<chunk_vars, indexer_vars, rest_vars>>

vars == <<crew_vars, diff_vars, index_vars>>

----
\* Bounds of the model

MaxReviews == 2

----
\* Generic helpers

None == << >>

Some(x) == <<x>>

Range(s) == {s[i] : i \in DOMAIN s}

\* Python's s[:n]
Take(s, n) == IF Len(s) <= n THEN s ELSE SubSeq(s, 1, n)

\* Python's "sub in url" at segment granularity
Contains(url, seg) == \E i \in DOMAIN url : url[i] = seg

----
\* Patch text (diff_parser.py reads it through unidiff.PatchSet)
\*
\* A patch is a sequence of lines.  Line kinds:
\*   "src"   "--- a/<v>"            "tgt"   "+++ b/<v>"
\*   "hunk"  "@@ -os,oc +ns,nc @@"  "add"   "+<v>"    "del"  "-<v>"
\*   "ctx"   " <v>"                 "nonl"  "\ No newline at end of file"
\*   "empty" ""                     "text"  any other line

NoLine == 0 - 1

PLine(k, v, os, oc, ns, nc) == [k |-> k, v |-> v, os |-> os, oc |-> oc, ns |-> ns, nc |-> nc]

Src(p) == PLine("src", p, 0, 0, 0, 0)

Tgt(p) == PLine("tgt", p, 0, 0, 0, 0)

HunkHdr(os, oc, ns, nc) == PLine("hunk", "", os, oc, ns, nc)

Add(v) == PLine("add", v, 0, 0, 0, 0)

Del(v) == PLine("del", v, 0, 0, 0, 0)

Ctx(v) == PLine("ctx", v, 0, 0, 0, 0)

NoNl == PLine("nonl", "", 0, 0, 0, 0)

Empty == PLine("empty", "", 0, 0, 0, 0)

Text(v) == PLine("text", v, 0, 0, 0, 0)

\* unidiff Line: line_type, value, source_line_no, target_line_no
DLine(t, v, s, n) == [t |-> t, v |-> v, source_line_no |-> s, target_line_no |-> n]

\* The line type the hunk-body pattern gives a line by its first character
\* ("" when the line cannot be part of a hunk body)
BodyType(l) ==
    CASE l.k \in {"add", "tgt"} -> "add"
      [] l.k \in {"del", "src"} -> "del"
      [] l.k \in {"ctx", "empty"} -> "ctx"
      [] l.k = "nonl" -> "nonl"
      [] OTHER -> ""

\* PatchedFile._parse_hunk: reads body lines from position i until the
\* header's source and target lengths are both reached.
RECURSIVE HunkBody(_, _, _, _, _, _, _)
HunkBody(patch, i, s_no, t_no, s_end, t_end, acc) ==
    IF i > Len(patch)
    THEN [err |-> (s_no < s_end \/ t_no < t_end), lines |-> acc, next |-> i]
    ELSE LET l == patch[i]
             ty == BodyType(l)
             s2 == IF ty \in {"del", "ctx"} THEN s_no + 1 ELSE s_no
             t2 == IF ty \in {"add", "ctx"} THEN t_no + 1 ELSE t_no
             ln == DLine(ty, l.v,
                         IF ty \in {"del", "ctx"} THEN s_no ELSE NoLine,
                         IF ty \in {"add", "ctx"} THEN t_no ELSE NoLine)
         IN  IF ty = "" THEN [err |-> TRUE, lines |-> acc, next |-> i]
             ELSE IF s2 > s_end \/ t2 > t_end
                  THEN [err |-> TRUE, lines |-> acc, next |-> i]
                  ELSE IF s2 = s_end /\ t2 = t_end
                       THEN [err |-> FALSE, lines |-> Append(acc, ln), next |-> i + 1]
                       ELSE HunkBody(patch, i + 1, s2, t2, s_end, t_end, Append(acc, ln))

_parse_hunk(patch, i) ==
    LET h == patch[i]
        b == HunkBody(patch, i + 1, h.os, h.ns, h.os + h.oc, h.ns + h.nc, << >>)
    IN  [err |-> b.err, next |-> b.next,
         hunk |-> [source_start |-> h.os, source_length |-> h.oc,
                   target_start |-> h.ns, target_length |-> h.nc,
                   lines |-> b.lines]]

\* Append a line to the last hunk of the current (last) file
AppendToLastHunk(files, ln) ==
    LET f == files[Len(files)]
        h == f.hunks[Len(f.hunks)]
    IN  [files EXCEPT ![Len(files)].hunks[Len(f.hunks)].lines = Append(h.lines, ln)]

\* PatchSet._parse: st.cur says whether current_file is set (it is then the
\* last file), st.source_file is the last "---" header seen (optional),
\* st.info whether patch_info is set.
RECURSIVE PatchSetParse(_, _, _)
PatchSetParse(patch, i, st) ==
    IF i > Len(patch) \/ st.err THEN st
    ELSE LET l == patch[i]
             fail == [st EXCEPT !.err = TRUE]
         IN  CASE l.k = "src" ->
                    \* current_file is kept when its source_file is this one
                    PatchSetParse(patch, i + 1,
                        [st EXCEPT !.source_file = Some(l.v),
                                   !.cur = st.cur /\
                                           st.files[Len(st.files)].source_file = l.v])
               [] l.k = "tgt" ->
                    IF st.cur
                    THEN IF st.files[Len(st.files)].target_file # l.v
                         THEN fail
                         ELSE PatchSetParse(patch, i + 1, st)
                    ELSE IF st.source_file = None
                         THEN fail
                         ELSE PatchSetParse(patch, i + 1,
                                [st EXCEPT !.files = Append(st.files,
                                               [source_file |-> st.source_file[1],
                                                target_file |-> l.v,
                                                hunks |-> << >>]),
                                           !.cur = TRUE, !.info = FALSE])
               [] l.k = "hunk" ->
                    IF ~st.cur THEN fail
                    ELSE LET r == _parse_hunk(patch, i)
                         IN  IF r.err THEN fail
                             ELSE PatchSetParse(patch, r.next,
                                    [st EXCEPT !.info = FALSE,
                                               !.files[Len(st.files)].hunks =
                                                   Append(@, r.hunk)])
               [] l.k = "nonl" ->
                    IF ~st.cur THEN fail
                    ELSE IF st.files[Len(st.files)].hunks = << >> THEN fail
                    ELSE PatchSetParse(patch, i + 1,
                            [st EXCEPT !.files = AppendToLastHunk(st.files,
                                          DLine("nonl", "", NoLine, NoLine))])
               [] l.k = "empty" /\ st.cur ->
                    IF st.files[Len(st.files)].hunks = << >> THEN fail
                    ELSE PatchSetParse(patch, i + 1,
                            [st EXCEPT !.files = AppendToLastHunk(st.files,
                                          DLine("empty", "", NoLine, NoLine))])
               [] OTHER ->
                    IF st.info THEN PatchSetParse(patch, i + 1, st)
                    ELSE PatchSetParse(patch, i + 1,
                            [st EXCEPT !.cur = FALSE, !.info = TRUE])

PatchSet(patch) ==
    PatchSetParse(patch, 1,
        [err |-> FALSE, files |-> << >>, cur |-> FALSE,
         source_file |-> None, info |-> FALSE])

DevNull == "/dev/null"

\* PatchedFile.is_rename: both sides are files and their paths differ
is_rename(f) ==
    f.source_file # DevNull /\ f.target_file # DevNull /\ f.source_file # f.target_file

\* PatchedFile.path: the source path, the target path when the file is new
\* or renamed
PatchedFilePath(f) ==
    IF f.source_file = DevNull \/ (is_rename(f) /\ f.target_file # DevNull)
    THEN f.target_file
    ELSE f.source_file

\* Python's [x for x in s if P(x)] for the three kinds of parse_patch
RECURSIVE LinesOf(_, _)
LinesOf(lines, kind) ==
    IF lines = << >> THEN << >>
    ELSE LET l == lines[1]
             cls == IF l.t = "add" THEN "added"
                    ELSE IF l.t = "del" THEN "removed" ELSE "context"
             no == IF l.t = "del" THEN l.source_line_no ELSE l.target_line_no
         IN  (IF cls = kind THEN << <<no, l.v>> >> ELSE << >>)
             \o LinesOf(Tail(lines), kind)

CodeHunk(path, h) ==
    [file_path |-> path,
     old_start |-> h.source_start, old_count |-> h.source_length,
     new_start |-> h.target_start, new_count |-> h.target_length,
     added_lines |-> LinesOf(h.lines, "added"),
     removed_lines |-> LinesOf(h.lines, "removed"),
     context_lines |-> LinesOf(h.lines, "context")]

RECURSIVE FileHunks(_, _)
FileHunks(path, hs) ==
    IF hs = << >> THEN << >>
    ELSE <<CodeHunk(path, hs[1])>> \o FileHunks(path, Tail(hs))

RECURSIVE AllFileHunks(_)
AllFileHunks(files) ==
    IF files = << >> THEN << >>
    ELSE FileHunks(PatchedFilePath(files[1]), files[1].hunks)
         \o AllFileHunks(Tail(files))

\* parse_patch handing back the hunks read before the diff reader failed
parse_patch_partial(patch_text) ==
    IF patch_text = << >> THEN << >>
    ELSE AllFileHunks(PatchSet(patch_text).files)

\* DiffParser.parse_patch: the hunks of the patch, [] for an empty patch and
\* whenever the diff reader raises
parse_patch(patch_text) ==
    IF patch_text = << >> THEN << >>
    ELSE LET ps == PatchSet(patch_text)
         IN  IF ps.err THEN << >> ELSE AllFileHunks(ps.files)

RECURSIVE SumAdded(_)
SumAdded(hunks) ==
    IF hunks = << >> THEN 0 ELSE Len(hunks[1].added_lines) + SumAdded(Tail(hunks))

RECURSIVE SumRemoved(_)
SumRemoved(hunks) ==
    IF hunks = << >> THEN 0 ELSE Len(hunks[1].removed_lines) + SumRemoved(Tail(hunks))

\* get_change_summary counting one file per hunk
get_change_summary_counting_hunks(hunks) ==
    [total_added |-> SumAdded(hunks),
     total_removed |-> SumRemoved(hunks),
     files_changed |-> Len(hunks),
     net_change |-> SumAdded(hunks) - SumRemoved(hunks)]

\* DiffParser.get_change_summary
get_change_summary(hunks) ==
    [total_added |-> SumAdded(hunks),
     total_removed |-> SumRemoved(hunks),
     files_changed |-> Cardinality({hunks[i].file_path : i \in DOMAIN hunks}),
     net_change |-> SumAdded(hunks) - SumRemoved(hunks)]

\* file_path.split('.')[-1] if '.' in file_path else '', on the paths in use
\* (every path a patch or a hunk of this module names)
Extension(file_path) ==
    CASE file_path \in {"a.py", "b.py", "old.py", "new.py"} -> "py"
      [] file_path = "lib.js" -> "js"
      [] file_path = "app.ts" -> "ts"
      [] file_path = "Main.java" -> "java"
      [] file_path = "c.go" -> "go"
      [] file_path = "README.md" -> "md"
      [] file_path = "img.png" -> "png"
      [] file_path \in {"Makefile", DevNull} -> ""

\* lang_map.get(extension), then "language not in patterns"
lang_map(extension) ==
    CASE extension = "py" -> Some("python")
      [] extension \in {"js", "ts"} -> Some("javascript")
      [] extension = "java" -> Some("java")
      [] extension = "go" -> Some("go")
      [] OTHER -> None

\* The lines of code in use on which one of the four patterns matches, with
\* the first non-empty group of the match
patterns ==
    {<<"python", "def foo(x):", "foo">>, <<"python", "    def bar(self):", "bar">>,
     <<"python", "def gone(x):", "gone">>,
     <<"javascript", "function foo() {", "foo">>,
     <<"javascript", "const baz = (a) => a", "baz">>,
     <<"java", "def foo(x):", "foo">>, <<"java", "    def bar(self):", "bar">>,
     <<"java", "def gone(x):", "gone">>, <<"java", "function foo() {", "foo">>,
     <<"java", "func Run() {", "Run">>, <<"java", "return foo(x)", "foo">>,
     <<"go", "func Run() {", "Run">>}

\* re.match(patterns[language], line_content) and the group taken from it
re_match(language, line_content) ==
    IF \E m \in patterns : m[1] = language /\ m[2] = line_content
    THEN Some((CHOOSE m \in patterns : m[1] = language /\ m[2] = line_content)[3])
    ELSE None

\* The symbols of one hunk, scanning its removed lines as well
HunkFunctions_all_lines(language, hunk) ==
    {re_match(language, l[2])[1] :
        l \in {x \in Range(hunk.added_lines \o hunk.removed_lines \o hunk.context_lines) :
                   re_match(language, x[2]) # None}}

\* The set "functions" built from one hunk (diff_parser.py lines 120-129)
HunkFunctions(language, hunk) ==
    {re_match(language, l[2])[1] :
        l \in {x \in Range(hunk.added_lines \o hunk.context_lines) :
                   re_match(language, x[2]) # None}}

\* The loop over the hunks.  functions_by_file maps a path to the list the
\* code extends hunk by hunk; the list is kept as a bag, the order in which a
\* hunk's set is iterated being unspecified.
RECURSIVE extract_functions_from(_, _)
extract_functions_from(hunks, functions_by_file) ==
    IF hunks = << >> THEN functions_by_file
    ELSE LET hunk == hunks[1]
             file_path == hunk.file_path
             language == lang_map(Extension(file_path))
             functions == IF language = None THEN {}
                          ELSE HunkFunctions(language[1], hunk)
             extended ==
                 IF functions = {} THEN functions_by_file
                 ELSE [f \in DOMAIN functions_by_file \cup {file_path} |->
                          IF f # file_path THEN functions_by_file[f]
                          ELSE IF f \in DOMAIN functions_by_file
                               THEN functions_by_file[f] (+) SetToBag(functions)
                               ELSE SetToBag(functions)]
         IN  extract_functions_from(Tail(hunks), extended)

\* DiffParser.extract_functions
extract_functions(hunks) == extract_functions_from(hunks, << >>)

----
\* Inputs: URLs, platform names, what the hosting provider answers, and what
\* the reasoning capability answers

UrlGithub == <<"github.com", "o", "r", "pull", "1">>

UrlGitlab == <<"gitlab.com", "o", "r", "-", "merge_requests", "1">>

UrlBitbucket == <<"bitbucket.org", "o", "r", "pull-requests", "1">>

UrlOther == <<"example.com", "o", "r", "pull", "1">>

UrlGithubIssue == <<"github.com", "o", "r", "issues", "1">>

UrlMirror == <<"gitlab.com", "github.com", "r", "-", "merge_requests", "1">>

Urls == {UrlGithub, UrlGitlab, UrlBitbucket, UrlOther, UrlGithubIssue, UrlMirror}

Digits == {"1"}

PlatformArgs == {None, Some("github"), Some("gitlab"), Some("svn")}

\* "a.py": hunk text only, as the providers' per-file patch field has it
PatchBare == <<HunkHdr(1, 2, 1, 4), Ctx("x"), Add("a"), Add("b"), Add("c"), Del("y")>>

\* "b.py": a full unified diff with its file header, one added line
PatchFull == <<Src("b.py"), Tgt("b.py"), HunkHdr(3, 1, 3, 2), Ctx("k"), Add("n"), NoNl>>

\* two files in one patch text, the second one new
PatchTwo == <<Src("b.py"), Tgt("b.py"), HunkHdr(1, 1, 1, 1), Del("p"), Add("q"),
              Src(DevNull), Tgt("c.go"), HunkHdr(0, 0, 1, 2), Add("r"), Add("s")>>

RemoteFile(name, adds, dels, patch) ==
    [filename |-> name, additions |-> adds, deletions |-> dels, patch |-> patch]

RemotePR(title, lang, adds, dels, nfiles, files) ==
    [title |-> title, description |-> "desc", author |-> "dev", language |-> lang,
     additions |-> adds, deletions |-> dels, changed_files |-> nfiles, files |-> files]

RemoteBare == RemotePR("bare", Some("Python"), 3, 1, 1, <<RemoteFile("a.py", 3, 1, Some(PatchBare))>>)

RemoteFull == RemotePR("full", Some("Python"), 5, 2, 1, <<RemoteFile("b.py", 5, 2, Some(PatchFull))>>)

RemoteTwo == RemotePR("two", None, 3, 1, 2,
                 <<RemoteFile("b.py", 1, 1, Some(PatchTwo)), RemoteFile("img.png", 0, 0, None)>>)

RemoteEmpty == RemotePR("empty", None, 0, 0, 0, << >>)

RemotePRs == {RemoteBare, RemoteFull, RemoteTwo, RemoteEmpty}

FetchErrors == {<<"timed out">>, <<"404 Not Found">>}

StageReplies == {"r1", "r2"}

LLMErrors == {<<"timed out">>, <<"rate limit exceeded">>}

----
\* Platform adapters (data_preparation/*_adapter.py)

\* GitHubAdapter.parse_url: re.search finds "github.com/<owner>/<repo>/pull/<n>"
GitHubAdapter_parse_url(url) ==
    \E i \in DOMAIN url : /\ i + 4 <= Len(url)
                          /\ url[i] = "github.com"
                          /\ url[i + 3] = "pull"
                          /\ url[i + 4] \in Digits

\* GitLabAdapter.parse_url: "gitlab.com/<owner>/<repo>/-/merge_requests/<n>"
GitLabAdapter_parse_url(url) ==
    \E i \in DOMAIN url : /\ i + 5 <= Len(url)
                          /\ url[i] = "gitlab.com"
                          /\ url[i + 3] = "-"
                          /\ url[i + 4] = "merge_requests"
                          /\ url[i + 5] \in Digits

\* BitbucketAdapter.parse_url: "bitbucket.org/<workspace>/<repo>/pull-requests/<n>"
BitbucketAdapter_parse_url(url) ==
    \E i \in DOMAIN url : /\ i + 4 <= Len(url)
                          /\ url[i] = "bitbucket.org"
                          /\ url[i + 3] = "pull-requests"
                          /\ url[i + 4] \in Digits

FileChange(name, adds, dels, patch) ==
    [filename |-> name, additions |-> adds, deletions |-> dels, patch |-> patch]

PullRequest(p, title, desc, author, lang, files, adds, dels, nfiles) ==
    [platform |-> p, title |-> title, description |-> desc, author |-> author,
     language |-> lang, files_changed |-> files,
     additions |-> adds, deletions |-> dels, changed_files |-> nfiles]

RECURSIVE GithubFiles(_)
GithubFiles(fs) ==
    IF fs = << >> THEN << >>
    ELSE <<FileChange(fs[1].filename, fs[1].additions, fs[1].deletions, fs[1].patch)>>
         \o GithubFiles(Tail(fs))

RECURSIVE GitlabFiles(_)
GitlabFiles(fs) ==
    IF fs = << >> THEN << >>
    ELSE <<FileChange(fs[1].filename, 0, 0, fs[1].patch)>> \o GitlabFiles(Tail(fs))

Raise(e) == [ok |-> FALSE, error |-> e, value |-> None]

Return(v) == [ok |-> TRUE, error |-> << >>, value |-> Some(v)]

\* The fetch_pull_request of each adapter; answer is what the provider's API
\* gives: [err |-> optional error, data |-> a remote PR]
GitHubAdapter_fetch_pull_request(url, answer) ==
    IF ~GitHubAdapter_parse_url(url) THEN Raise(<<"Invalid GitHub PR URL: ">> \o url)
    ELSE IF answer.err # None THEN Raise(answer.err[1])
    ELSE LET d == answer.data
         IN  Return(PullRequest("github", d.title, d.description, d.author,
                        d.language, GithubFiles(d.files),
                        d.additions, d.deletions, d.changed_files))

GitLabAdapter_fetch_pull_request(url, answer) ==
    IF ~GitLabAdapter_parse_url(url) THEN Raise(<<"Invalid GitLab MR URL: ">> \o url)
    ELSE IF answer.err # None THEN Raise(answer.err[1])
    ELSE LET d == answer.data
         IN  Return(PullRequest("gitlab", d.title, d.description, d.author,
                        None, GitlabFiles(d.files), 0, 0, Len(d.files)))

BitbucketAdapter_fetch_pull_request(url, answer, client) ==
    IF ~client
    THEN Raise(<<"Bitbucket client not initialized. Provide credentials.">>)
    ELSE IF ~BitbucketAdapter_parse_url(url)
    THEN Raise(<<"Invalid Bitbucket PR URL: ">> \o url)
    ELSE IF answer.err # None THEN Raise(answer.err[1])
    ELSE LET d == answer.data
         IN  Return(PullRequest("bitbucket", d.title, d.description, d.author,
                        None, << >>, 0, 0, 0))

\* adapter = self.adapters.get(platform); adapter.fetch_pull_request(pr_url)
fetch_pull_request(p, url, answer, client) ==
    CASE p = "github" -> GitHubAdapter_fetch_pull_request(url, answer)
      [] p = "gitlab" -> GitLabAdapter_fetch_pull_request(url, answer)
      [] p = "bitbucket" -> BitbucketAdapter_fetch_pull_request(url, answer, client)

----
\* ReviewCrew (agents/crew_orchestrator.py)

SupportedPlatforms == {"github", "gitlab", "bitbucket"}

\* ReviewCrew._detect_platform
_detect_platform(url) ==
    IF Contains(url, "github.com") THEN Return("github")
    ELSE IF Contains(url, "gitlab.com") THEN Return("gitlab")
    ELSE IF Contains(url, "bitbucket.org") THEN Return("bitbucket")
    ELSE Raise(<<"Unsupported platform URL: ">> \o url)

RECURSIVE _all_hunks(_)
_all_hunks(files) ==
    IF files = << >> THEN << >>
    ELSE (IF files[1].patch # None /\ files[1].patch[1] # << >>
          THEN parse_patch(files[1].patch[1]) ELSE << >>)
         \o _all_hunks(Tail(files))

RECURSIVE _code_changes(_)
_code_changes(hunks) ==
    IF hunks = << >> THEN << >>
    ELSE <<[file |-> hunks[1].file_path,
            added |-> Len(hunks[1].added_lines),
            removed |-> Len(hunks[1].removed_lines),
            sample_changes |-> Take(hunks[1].added_lines, 5)]>>
         \o _code_changes(Tail(hunks))

RECURSIVE _all_files(_)
_all_files(files) ==
    IF files = << >> THEN << >> ELSE <<files[1].filename>> \o _all_files(Tail(files))

\* ReviewCrew._prepare_pr_context
_prepare_pr_context(p) ==
    LET all_hunks == _all_hunks(p.files_changed)
    IN  [pr_info |-> [title |-> p.title, description |-> p.description,
                      author |-> p.author, platform |-> p.platform,
                      language |-> p.language, files_changed |-> p.changed_files,
                      additions |-> p.additions, deletions |-> p.deletions],
         change_summary |-> get_change_summary(all_hunks),
         code_changes |-> _code_changes(Take(all_hunks, 10)),
         all_files |-> _all_files(p.files_changed)]

\* Faulty variant of the task list: the critic is listed before the retriever
tasks_critic_first == <<"analysis_task", "critic_task", "retrieval_task", "synthesis_task">>

\* Faulty variant of the task list: the retrieval task is left out of the crew
tasks_without_retrieval == <<"analysis_task", "critic_task", "synthesis_task">>

\* The crew's task list, in the order given to Crew(tasks=...)
tasks == <<"analysis_task", "retrieval_task", "critic_task", "synthesis_task">>

TaskNames == {"analysis_task", "retrieval_task", "critic_task", "synthesis_task"}

NotSpecified == <<"NOT_SPECIFIED">>

\* Faulty variant: critic_task is built without context=, so the crew hands
\* it the output of every task run before it
TaskContext_critic_unspecified(t) ==
    CASE t = "analysis_task" -> <<"NOT_SPECIFIED">>
      [] t = "retrieval_task" -> <<"analysis_task">>
      [] t = "critic_task" -> <<"NOT_SPECIFIED">>
      [] t = "synthesis_task" -> <<"analysis_task", "retrieval_task", "critic_task">>

\* Task(context=...) of each task
TaskContext(t) ==
    CASE t = "analysis_task" -> NotSpecified
      [] t = "retrieval_task" -> <<"analysis_task">>
      [] t = "critic_task" -> <<"analysis_task">>
      [] t = "synthesis_task" -> <<"analysis_task", "retrieval_task", "critic_task">>

\* What each Task(description=f"...") interpolates from pr and context
TaskDescription(t, p, ctx) ==
    CASE t = "analysis_task" ->
            <<p.title, p.description, p.language, p.changed_files,
              p.additions, p.deletions, Take(ctx.all_files, 20)>>
      [] t = "retrieval_task" ->
            <<IF p.language = None THEN "unknown language" ELSE p.language[1]>>
      [] t = "critic_task" -> << >>
      [] t = "synthesis_task" -> <<p.title>>

NoOutput == ""

RECURSIVE OutputsOf(_, _)
OutputsOf(ts, outs) ==
    IF ts = << >> THEN << >>
    ELSE (IF outs[ts[1]] = NoOutput THEN << >>
          ELSE <<[task |-> ts[1], raw |-> outs[ts[1]]]>>)
         \o OutputsOf(Tail(ts), outs)

\* Crew._get_context under Process.sequential: the outputs of the task's
\* context tasks, or of all tasks run so far when no context was given
_get_context(idx, outs) ==
    IF TaskContext(tasks[idx]) = NotSpecified
    THEN OutputsOf(SubSeq(tasks, 1, idx - 1), outs)
    ELSE OutputsOf(TaskContext(tasks[idx]), outs)

\* What the agent of task idx is given when the task starts
TaskInput(idx, p, ctx, outs) ==
    Some([description |-> TaskDescription(tasks[idx], p, ctx),
          context |-> _get_context(idx, outs)])

\* The dict returned at lines 283-289
SuccessResult(ctx, review, plat, url) ==
    [success |-> TRUE, pr_info |-> ctx.pr_info, review |-> review,
     platform |-> plat, url |-> url]

\* The dict returned by the except clause, lines 291-297
ErrorResult(e, url) == [success |-> FALSE, error |-> e, url |-> url]

NoInputs == [t \in TaskNames |-> None]

NoOutputs == [t \in TaskNames |-> NoOutput]

----
\* Construction

\* VectorStore.__init__: creates the directory and opens the persistent client
VectorStore_init(up) ==
    IF up THEN Return("client") ELSE Raise(<<"vector store unavailable">>)

\* Retriever.__init__: builds its own VectorStore
Retriever_init(up) == VectorStore_init(up)

\* ReviewCrew.__init__: raises whatever building its components raises
ReviewCrew_init(up) == IF Retriever_init(up).ok THEN "ready" ELSE "init_failed"

review_vars == <<pc, pr_url, platform, pr, context, task_idx, task_input,
                 task_output, failed_at, result>>

CrewInit ==
    /\ crew_state = "absent"
    /\ store_up \in BOOLEAN
    /\ bitbucket_client = FALSE
    /\ run = 0
    /\ pc = "idle"
    /\ pr_url = << >>
    /\ platform = None
    /\ pr = None
    /\ context = None
    /\ task_idx = 0
    /\ task_input = NoInputs
    /\ task_output = NoOutputs
    /\ failed_at = ""
    /\ result = None

\* No caller of DiffParser's static methods outside the crew
DiffIdle ==
    /\ dp_patch = << >>
    /\ dp_hunks = None
    /\ dp_summary = None
    /\ dp_functions = None

\* No caller of _chunk_document outside index_markdown_files
ChunkIdle ==
    /\ ck_content = << >>
    /\ ck_size = 0
    /\ ck_chunks = None

\* No knowledge base on disk, an empty store, no indexer at work
IndexerIdle ==
    /\ kb = << >>
    /\ store = << >>
    /\ ix_pc = "idle"
    /\ ix_run_no = 0
    /\ ix_cur = [kb |-> << >>, reset |-> FALSE, deleted |-> << >>, entries |-> << >>,
                 stats |-> None]
    /\ ix_prev = None

RetrieverIdle ==
    /\ rt_call = << >>
    /\ rt_returned = << >>

EmbedIdle ==
    /\ em_texts = << >>
    /\ em_returned = << >>

RestIdle ==
    /\ RetrieverIdle
    /\ EmbedIdle
    /\ cix = << >>
    /\ crv = << >>

IndexIdle == ChunkIdle /\ IndexerIdle /\ RestIdle

Init == CrewInit /\ DiffIdle /\ IndexIdle

\* crew = ReviewCrew()
Construct(creds) ==
    /\ UNCHANGED <<diff_vars, index_vars>>
    /\ crew_state = "absent"
    /\ crew_state' = ReviewCrew_init(store_up)
    /\ bitbucket_client' = (creds /\ crew_state' = "ready")
    /\ UNCHANGED <<store_up, run>>
    /\ UNCHANGED review_vars

----
\* review_pull_request, one action per step between its external calls

\* Faulty variant: no except clause, the exception leaves review_pull_request
\* and nothing is returned
Fail_raising(where, e) ==
    /\ pc' = "done"
    /\ failed_at' = where
    /\ result' = None

\* The except clause: the review ends with the error dict
Fail(where, e) ==
    /\ pc' = "done"
    /\ failed_at' = where
    /\ result' = Some(ErrorResult(e, pr_url))

\* crew.review_pull_request(pr_url, platform) is called
StartReview(url, plat) ==
    /\ UNCHANGED <<diff_vars, index_vars>>
    /\ crew_state = "ready"
    /\ pc \in {"idle", "done"}
    /\ run < MaxReviews
    /\ run' = run + 1
    /\ pc' = "start"
    /\ pr_url' = url
    /\ platform' = plat
    /\ pr' = None
    /\ context' = None
    /\ task_idx' = 0
    /\ task_input' = NoInputs
    /\ task_output' = NoOutputs
    /\ failed_at' = ""
    /\ result' = None
    /\ UNCHANGED <<crew_state, store_up, bitbucket_client>>

\* lines 162-163
DetectPlatform ==
    /\ UNCHANGED <<diff_vars, index_vars>>
    /\ pc = "start"
    /\ IF platform = None
       THEN LET r == _detect_platform(pr_url)
            IN  IF r.ok
                THEN /\ platform' = r.value
                     /\ pc' = "fetch"
                     /\ UNCHANGED <<failed_at, result>>
                ELSE /\ Fail("detect", r.error)
                     /\ UNCHANGED platform
       ELSE /\ pc' = "fetch"
            /\ UNCHANGED <<platform, failed_at, result>>
    /\ UNCHANGED <<crew_state, store_up, bitbucket_client, run, pr_url, pr, context,
                   task_idx, task_input, task_output>>

\* lines 168-173: adapter lookup and fetch
Fetch(answer) ==
    /\ UNCHANGED <<diff_vars, index_vars>>
    /\ pc = "fetch"
    /\ IF platform[1] \notin SupportedPlatforms
       THEN /\ Fail("adapter", <<"Unsupported platform: ", platform[1]>>)
            /\ UNCHANGED pr
       ELSE LET r == fetch_pull_request(platform[1], pr_url, answer, bitbucket_client)
            IN  IF r.ok
                THEN /\ pr' = r.value
                     /\ pc' = "prepare"
                     /\ UNCHANGED <<failed_at, result>>
                ELSE /\ Fail("fetch", r.error)
                     /\ UNCHANGED pr
    /\ UNCHANGED <<crew_state, store_up, bitbucket_client, run, pr_url, platform,
                   context, task_idx, task_input, task_output>>

\* line 176
PrepareContext ==
    /\ UNCHANGED <<diff_vars, index_vars>>
    /\ pc = "prepare"
    /\ context' = Some(_prepare_pr_context(pr[1]))
    /\ pc' = "kickoff"
    /\ UNCHANGED <<crew_state, store_up, bitbucket_client, run, pr_url, platform, pr,
                   task_idx, task_input, task_output, failed_at, result>>

\* lines 178-279: agents, tasks and crew are built, kickoff starts the first task
Kickoff ==
    /\ UNCHANGED <<diff_vars, index_vars>>
    /\ pc = "kickoff"
    /\ pc' = "task"
    /\ task_idx' = 1
    /\ task_input' = [task_input EXCEPT ![tasks[1]] = TaskInput(1, pr[1], context[1], task_output)]
    /\ UNCHANGED <<crew_state, store_up, bitbucket_client, run, pr_url, platform, pr,
                   context, task_output, failed_at, result>>

\* The running task's call to the reasoning capability returns reply: its
\* output is stored; the next task starts, or kickoff returns and the
\* success dict is returned
ExecuteTaskOk(reply) ==
    /\ UNCHANGED <<diff_vars, index_vars>>
    /\ pc = "task"
    /\ task_output' = [task_output EXCEPT ![tasks[task_idx]] = reply]
    /\ IF task_idx < Len(tasks)
       THEN /\ task_idx' = task_idx + 1
            /\ task_input' = [task_input EXCEPT ![tasks[task_idx + 1]] =
                                 TaskInput(task_idx + 1, pr[1], context[1], task_output')]
            /\ UNCHANGED <<pc, result>>
       ELSE /\ pc' = "done"
            /\ result' = Some(SuccessResult(context[1], reply, platform[1], pr_url))
            /\ UNCHANGED <<task_idx, task_input>>
    /\ UNCHANGED <<crew_state, store_up, bitbucket_client, run, pr_url, platform, pr,
                   context, failed_at>>

\* Faulty variant: the task's exception is swallowed and the crew goes on
\* with the next task
ExecuteTaskFail_continue(e) ==
    /\ UNCHANGED <<diff_vars, index_vars>>
    /\ pc = "task"
    /\ IF task_idx < Len(tasks)
       THEN /\ task_idx' = task_idx + 1
            /\ task_input' = [task_input EXCEPT ![tasks[task_idx + 1]] =
                                 TaskInput(task_idx + 1, pr[1], context[1], task_output)]
            /\ UNCHANGED <<pc, failed_at, result>>
       ELSE /\ Fail(tasks[task_idx], e)
            /\ UNCHANGED <<task_idx, task_input>>
    /\ UNCHANGED <<crew_state, store_up, bitbucket_client, run, pr_url, platform, pr,
                   context, task_output>>

\* Faulty variant: the except clause clears the outputs written so far
ExecuteTaskFail_rollback(e) ==
    /\ UNCHANGED <<diff_vars, index_vars>>
    /\ pc = "task"
    /\ Fail(tasks[task_idx], e)
    /\ task_output' = NoOutputs
    /\ UNCHANGED <<crew_state, store_up, bitbucket_client, run, pr_url, platform, pr,
                   context, task_idx, task_input>>

\* The running task's call to the reasoning capability raises e (after
\* whatever retries the agent framework makes on its own): kickoff raises and
\* the except clause returns the error dict.  The Task objects are locals of
\* the call; nothing assigns to them on the way out.
ExecuteTaskFail(e) ==
    /\ UNCHANGED <<diff_vars, index_vars>>
    /\ pc = "task"
    /\ Fail(tasks[task_idx], e)
    /\ UNCHANGED <<crew_state, store_up, bitbucket_client, run, pr_url, platform, pr,
                   context, task_idx, task_input, task_output>>

Answers == {[err |-> None, data |-> d] : d \in RemotePRs}
           \cup {[err |-> Some(e), data |-> RemoteEmpty] : e \in FetchErrors}

Next ==
    \/ \E creds \in BOOLEAN : Construct(creds)
    \/ \E url \in Urls, plat \in PlatformArgs : StartReview(url, plat)
    \/ DetectPlatform
    \/ \E answer \in Answers : Fetch(answer)
    \/ PrepareContext
    \/ Kickoff
    \/ \E reply \in StageReplies : ExecuteTaskOk(reply)
    \/ \E e \in LLMErrors : ExecuteTaskFail(e)

Spec == Init /\ [][Next]_vars

----
\* DiffParser's static methods called on their own (diff_parser.py)

MaxPatchLen == 4

MaxHunks == 4

SeqsUpTo(S, n) == UNION {[1..k -> S] : k \in 0..n}

\* The CodeHunk dataclass
CodeHunkRecord(path, os, oc, ns, nc, added, removed, ctx) ==
    [file_path |-> path, old_start |-> os, old_count |-> oc,
     new_start |-> ns, new_count |-> nc,
     added_lines |-> added, removed_lines |-> removed, context_lines |-> ctx]

\* Lines a patch text is made of, "@@ -1,3" being a hunk header cut short
PatchAlphabet ==
    {Src("a.py"), Tgt("a.py"), HunkHdr(1, 0, 1, 1), Add("def foo(x):"), Ctx("x = 1"),
     Text("@@ -1,3")}

\* "b.py" with a second hunk whose body ends before its header's lengths
PatchTruncated ==
    <<Src("b.py"), Tgt("b.py"), HunkHdr(3, 1, 3, 2), Ctx("k"), Add("def foo(x):"),
      HunkHdr(9, 2, 9, 2), Ctx("x = 1")>>

\* "a.py" with two hunks, the same definition in the context of both
PatchTwoHunks ==
    <<Src("a.py"), Tgt("a.py"),
      HunkHdr(1, 2, 1, 2), Ctx("def foo(x):"), Del("def gone(x):"), Add("x = 1"),
      HunkHdr(9, 1, 9, 2), Ctx("def foo(x):"), Add("    def bar(self):")>>

\* "a.py" under two file headers of the same name
PatchSameFile ==
    <<Src("a.py"), Tgt("a.py"), HunkHdr(1, 0, 1, 1), Add("def foo(x):"),
      Src("a.py"), Tgt("a.py"), HunkHdr(5, 0, 5, 1), Add("x = 1")>>

\* "old.py" renamed to "new.py"
PatchRename ==
    <<Src("old.py"), Tgt("new.py"), HunkHdr(1, 0, 1, 1), Add("def foo(x):")>>

\* a second header with the source of the first and another target
PatchRetarget ==
    <<Src("a.py"), Tgt("a.py"), HunkHdr(1, 0, 1, 1), Add("def foo(x):"),
      Src("a.py"), Tgt("b.py"), HunkHdr(5, 0, 5, 1), Add("x = 1")>>

Patches ==
    SeqsUpTo(PatchAlphabet, MaxPatchLen)
    \cup {PatchBare, PatchFull, PatchTwo, PatchTruncated, PatchTwoHunks,
          PatchSameFile, PatchRename, PatchRetarget}

HunkPyDefs ==
    CodeHunkRecord("a.py", 1, 1, 1, 4,
        <<<<2, "def foo(x):">>, <<3, "    def bar(self):">>, <<4, "x = 1">>>>, << >>,
        <<<<1, "x = 1">>>>)

HunkPyEdit ==
    CodeHunkRecord("a.py", 9, 2, 9, 2,
        <<<<10, "x = 1">>>>, <<<<10, "def gone(x):">>>>, <<<<9, "def foo(x):">>>>)

HunkJsConst ==
    CodeHunkRecord("lib.js", 1, 0, 1, 1, <<<<1, "const baz = (a) => a">>>>, << >>, << >>)

HunkJsTwo ==
    CodeHunkRecord("lib.js", 5, 1, 5, 3,
        <<<<6, "function foo() {">>, <<7, "x = 1">>>>, << >>, <<<<5, "x = 1">>>>)

HunkReadme ==
    CodeHunkRecord("README.md", 1, 0, 1, 1, <<<<1, "def foo(x):">>>>, << >>, << >>)

HunkMakefile ==
    CodeHunkRecord("Makefile", 1, 0, 1, 1, <<<<1, "func Run() {">>>>, << >>, << >>)

HunkGoRemoved ==
    CodeHunkRecord("c.go", 1, 2, 1, 1, << >>, <<<<2, "func Run() {">>>>,
        <<<<1, "x = 1">>>>)

SampleHunks ==
    {HunkPyDefs, HunkPyEdit, HunkJsConst, HunkJsTwo, HunkReadme, HunkMakefile,
     HunkGoRemoved}

HunkSeqs == SeqsUpTo(SampleHunks, MaxHunks)

\* A caller holds either a patch text still to be parsed or a hunk list
DiffInit ==
    /\ CrewInit /\ store_up
    /\ IndexIdle
    /\ \/ dp_patch \in Patches /\ dp_hunks = None
       \/ dp_patch = << >> /\ dp_hunks \in {Some(hs) : hs \in HunkSeqs}
    /\ dp_summary = None
    /\ dp_functions = None

\* hunks = DiffParser.parse_patch(patch_text)
ParsePatch ==
    /\ dp_hunks = None
    /\ dp_hunks' = Some(parse_patch(dp_patch))
    /\ UNCHANGED <<dp_patch, dp_summary, dp_functions>>
    /\ UNCHANGED <<crew_vars, index_vars>>

\* summary = DiffParser.get_change_summary(hunks)
GetChangeSummary ==
    /\ dp_hunks # None
    /\ dp_summary = None
    /\ dp_summary' = Some(get_change_summary(dp_hunks[1]))
    /\ UNCHANGED <<dp_patch, dp_hunks, dp_functions>>
    /\ UNCHANGED <<crew_vars, index_vars>>

\* functions = DiffParser.extract_functions(hunks)
ExtractFunctions ==
    /\ dp_hunks # None
    /\ dp_functions = None
    /\ dp_functions' = Some(extract_functions(dp_hunks[1]))
    /\ UNCHANGED <<dp_patch, dp_hunks, dp_summary>>
    /\ UNCHANGED <<crew_vars, index_vars>>

DiffNext ==
    \/ ParsePatch
    \/ GetChangeSummary
    \/ ExtractFunctions

DiffSpec == DiffInit /\ [][DiffNext]_vars

----
\* KnowledgeBaseIndexer (indexer.py).  The text of a document or a chunk is
\* the sequence of its characters.

MaxContentLen == 5

MaxChunkSize == 3

BlankLine == <<"\n", "\n">>

Whitespace == {" ", "\n"}

Min(S) == CHOOSE i \in S : \A j \in S : i <= j

\* Where '\n\n' occurs in s
SepStarts(s) == {i \in 1..(Len(s) - 1) : s[i] = "\n" /\ s[i + 1] = "\n"}

\* str.split('\n\n'): cut at the leftmost occurrence, then go on after it
RECURSIVE split(_)
split(s) ==
    IF SepStarts(s) = {} THEN <<s>>
    ELSE LET i == Min(SepStarts(s))
         IN  <<SubSeq(s, 1, i - 1)>> \o split(SubSeq(s, i + 2, Len(s)))

\* str.strip()
strip(s) ==
    IF \A i \in DOMAIN s : s[i] \in Whitespace THEN << >>
    ELSE LET first == CHOOSE i \in DOMAIN s :
                          s[i] \notin Whitespace /\ \A j \in 1..(i - 1) : s[j] \in Whitespace
             last == CHOOSE i \in DOMAIN s :
                         s[i] \notin Whitespace /\ \A j \in (i + 1)..Len(s) : s[j] \in Whitespace
         IN  SubSeq(s, first, last)

\* The loop over the paragraphs and the final flush (indexer.py lines 46-54)
RECURSIVE ChunkLoop(_, _, _, _)
ChunkLoop(paragraphs, chunk_size, chunks, current_chunk) ==
    IF paragraphs = << >>
    THEN IF current_chunk # << >> THEN Append(chunks, strip(current_chunk)) ELSE chunks
    ELSE LET para == paragraphs[1]
         IN  IF Len(current_chunk) + Len(para) > chunk_size /\ current_chunk # << >>
             THEN ChunkLoop(Tail(paragraphs), chunk_size,
                            Append(chunks, strip(current_chunk)), para)
             ELSE ChunkLoop(Tail(paragraphs), chunk_size, chunks,
                            IF current_chunk # << >>
                            THEN current_chunk \o BlankLine \o para ELSE para)

\* _chunk_document without the flush after the loop
_chunk_document_unflushed(content, chunk_size) ==
    LET chunks == ChunkLoop(split(content), chunk_size, << >>, << >>)
    IN  IF chunks = << >> THEN chunks ELSE SubSeq(chunks, 1, Len(chunks) - 1)

\* KnowledgeBaseIndexer._chunk_document
_chunk_document(content, chunk_size) ==
    ChunkLoop(split(content), chunk_size, << >>, << >>)

Chars == {"a", "b", " ", "\n"}

Contents == SeqsUpTo(Chars, MaxContentLen)

ChunkSizes == 1..MaxChunkSize

ChunkInit ==
    /\ CrewInit /\ store_up
    /\ DiffIdle
    /\ IndexerIdle
    /\ RestIdle
    /\ ck_content \in Contents
    /\ ck_size \in ChunkSizes
    /\ ck_chunks = None

\* chunks = indexer._chunk_document(content, chunk_size)
ChunkDocument ==
    /\ ck_chunks = None
    /\ ck_chunks' = Some(_chunk_document(ck_content, ck_size))
    /\ UNCHANGED <<ck_content, ck_size>>
    /\ UNCHANGED <<crew_vars, diff_vars, indexer_vars, rest_vars>>

ChunkNext == ChunkDocument

ChunkSpec == ChunkInit /\ [][ChunkNext]_vars

----
\* index_markdown_files, index_all (indexer.py) and the VectorStore they
\* write into (vector_store.py)

MaxIndexRuns == 2

DefaultChunkSize == 1000

CollectionNames == <<"best_practices", "code_patterns", "review_examples">>

\* The metadata argument of index_best_practices, index_code_patterns and
\* index_review_examples
TypeTag(collection_name) ==
    CASE collection_name = "best_practices" -> "best_practice"
      [] collection_name = "code_patterns" -> "code_pattern"
      [] collection_name = "review_examples" -> "review_example"

\* doc_metadata of chunk i (counted from 0) of a file
DocMetadata(name, i, total, type) ==
    [source |-> name, chunk_index |-> i, total_chunks |-> total, type |-> type]

\* KnowledgeBaseIndexer._generate_doc_id: the MD5 digest of content followed
\* by the source; a digest is modelled by the string digested
_generate_doc_id(content, metadata) == content \o metadata.source

\* What index_markdown_files appends to documents, metadatas and ids for one
\* file (indexer.py lines 77-90); the id is the digest followed by "_<i>"
FileBatch(name, content, type) ==
    LET chunks == _chunk_document(content, DefaultChunkSize)
    IN  {[id |-> [md5 |-> _generate_doc_id(chunks[i],
                              DocMetadata(name, i - 1, Len(chunks), type)),
                  suffix |-> i - 1],
          document |-> chunks[i],
          metadata |-> DocMetadata(name, i - 1, Len(chunks), type)] :
            i \in DOMAIN chunks}

\* The files of a directory whose read_text raises
Unreadable_files(directory) ==
    {f \in DOMAIN directory.files : ~directory.files[f].readable}

\* The loop over directory.glob("*.md"): files that cannot be read are logged
\* and skipped
DirBatch(directory, type) ==
    UNION {FileBatch(f, directory.files[f].content, type) :
              f \in DOMAIN directory.files \ Unreadable_files(directory)}

\* client.get_or_create_collection
get_or_create_collection(st, name) ==
    IF name \in DOMAIN st THEN st
    ELSE [c \in DOMAIN st \cup {name} |-> IF c = name THEN << >> ELSE st[c]]

\* chromadb rejects a batch in which an id occurs twice
DuplicateIds(batch) == \E b1 \in batch, b2 \in batch : b1 # b2 /\ b1.id = b2.id

\* chromadb Collection.add: a record whose id the collection already holds
\* is left as it is, the others are inserted
collection_add(records, batch) ==
    [id \in DOMAIN records \cup {b.id : b \in batch} |->
        IF id \in DOMAIN records THEN records[id]
        ELSE LET b == CHOOSE b \in batch : b.id = id
             IN  [document |-> b.document, metadata |-> b.metadata]]

\* add_documents letting the backend's exception through
add_documents_raising(st, collection_name, batch, open_ok, add_ok) ==
    IF ~open_ok THEN [returned |-> FALSE, raised |-> TRUE, store |-> st]
    ELSE LET created == get_or_create_collection(st, collection_name)
         IN  IF ~add_ok \/ DuplicateIds(batch)
             THEN [returned |-> FALSE, raised |-> TRUE, store |-> created]
             ELSE [returned |-> TRUE, raised |-> FALSE,
                   store |-> [created EXCEPT ![collection_name] = collection_add(@, batch)]]

\* VectorStore.add_documents: two backend calls, get_or_create_collection
\* (open_ok: it answers) and Collection.add (add_ok: it answers).  True when
\* the batch was added, False when either call raised; a collection the first
\* call created stays when the second raises or rejects the batch
add_documents(st, collection_name, batch, open_ok, add_ok) ==
    IF ~open_ok THEN [returned |-> FALSE, raised |-> FALSE, store |-> st]
    ELSE LET created == get_or_create_collection(st, collection_name)
         IN  IF ~add_ok \/ DuplicateIds(batch)
             THEN [returned |-> FALSE, raised |-> FALSE, store |-> created]
             ELSE [returned |-> TRUE, raised |-> FALSE,
                   store |-> [created EXCEPT ![collection_name] = collection_add(@, batch)]]

\* VectorStore.delete_collection: True when the collection was dropped, False
\* when the backend raised (it cannot be reached, or it has no such collection)
delete_collection(st, name, backend_ok) ==
    IF backend_ok /\ name \in DOMAIN st
    THEN [returned |-> TRUE, store |-> [c \in DOMAIN st \ {name} |-> st[c]]]
    ELSE [returned |-> FALSE, store |-> st]

\* VectorStore.count_documents: get_or_create_collection (open_ok) and
\* Collection.count (count_ok); 0 when either call raised
count_documents(st, collection_name, open_ok, count_ok) ==
    IF ~open_ok THEN [returned |-> 0, store |-> st]
    ELSE LET created == get_or_create_collection(st, collection_name)
         IN  IF ~count_ok THEN [returned |-> 0, store |-> created]
             ELSE [returned |-> Cardinality(DOMAIN created[collection_name]),
                   store |-> created]

\* What one call of index_markdown_files did: the directory was missing, or
\* these files could not be read, this batch was built and add_documents
\* returned this (None when it was not called)
Entry(collection_name, missing, unreadable, batch, added) ==
    [collection |-> collection_name, missing |-> missing, unreadable |-> unreadable,
     batch |-> batch, added |-> added]

\* KnowledgeBaseIndexer.index_markdown_files
index_markdown_files(st, directory, collection_name, type, open_ok, add_ok) ==
    IF ~directory.exists
    THEN [raised |-> FALSE, store |-> st,
          entry |-> Entry(collection_name, TRUE, {}, {}, None)]
    ELSE LET batch == DirBatch(directory, type)
             r == add_documents(st, collection_name, batch, open_ok, add_ok)
         IN  IF batch = {}
             THEN [raised |-> FALSE, store |-> st,
                   entry |-> Entry(collection_name, FALSE,
                                   Unreadable_files(directory), {}, None)]
             ELSE [raised |-> r.raised, store |-> r.store,
                   entry |-> Entry(collection_name, FALSE,
                                   Unreadable_files(directory), batch, Some(r.returned))]

\* Knowledge-base files.  A file name and a file's text are sequences of
\* characters; a long paragraph is one that does not fit into a chunk
\* together with another one like it.

Rep(c, n) == [i \in 1..n |-> c]

LongParagraph(c) == Rep(c, DefaultChunkSize \div 2 + 1)

NameA == <<"a", ".", "m", "d">>

NameAA == <<"a", "a", ".", "m", "d">>

NameB == <<"b", ".", "m", "d">>

NameG == <<"g", ".", "m", "d">>

File(content, readable) == [content |-> content, readable |-> readable]

Dir(files) == [exists |-> TRUE, files |-> files]

DirMissing == [exists |-> FALSE, files |-> << >>]

DirShort == Dir(NameA :> File(<<"a">>, TRUE))

\* a.md cannot be read, b.md can
DirUnreadable == Dir((NameA :> File(<<"a">>, FALSE)) @@ (NameB :> File(<<"b">>, TRUE)))

\* g.md: one long paragraph
DirOne == Dir(NameG :> File(LongParagraph("a"), TRUE))

\* g.md after a second long paragraph was appended to it
DirGrown ==
    Dir(NameG :> File(LongParagraph("a") \o BlankLine \o LongParagraph("b"), TRUE))

\* g.md: the same long paragraph twice
DirRepeated ==
    Dir(NameG :> File(LongParagraph("a") \o BlankLine \o LongParagraph("a"), TRUE))

\* "xa" in a.md and "x" in aa.md: content followed by source is the same text
DirClash ==
    Dir((NameA :> File(<<"x", "a">>, TRUE)) @@ (NameAA :> File(<<"x">>, TRUE)))

KnowledgeBases ==
    {[best_practices |-> d1, code_patterns |-> d2, review_examples |-> DirShort] :
        d1 \in {DirMissing, DirUnreadable, DirOne, DirRepeated, DirClash},
        d2 \in {DirShort, DirMissing}}

\* What may happen to a directory between two index_all calls
Edits ==
    {<<"best_practices", DirGrown>>, <<"best_practices", DirShort>>,
     <<"code_patterns", DirMissing>>, <<"review_examples", DirUnreadable>>}

IndexInit ==
    /\ CrewInit /\ store_up
    /\ DiffIdle
    /\ ChunkIdle
    /\ RestIdle
    /\ kb \in KnowledgeBases
    /\ store = << >>
    /\ ix_pc = "idle"
    /\ ix_run_no = 0
    /\ ix_cur = [kb |-> << >>, reset |-> FALSE, deleted |-> << >>, entries |-> << >>,
                 stats |-> None]
    /\ ix_prev = None

\* indexer.index_all() is called
StartIndexAll ==
    /\ ix_pc = "idle"
    /\ ix_run_no < MaxIndexRuns
    /\ ix_run_no' = ix_run_no + 1
    /\ ix_pc' = CollectionNames[1]
    /\ ix_prev' = IF ix_run_no = 0 THEN None ELSE Some([ix_cur EXCEPT !.stats = None])
    /\ ix_cur' = [kb |-> kb, reset |-> FALSE, deleted |-> << >>, entries |-> << >>,
                  stats |-> None]
    /\ UNCHANGED <<kb, store>>
    /\ UNCHANGED <<crew_vars, diff_vars, chunk_vars, rest_vars>>

\* index_best_practices / index_code_patterns / index_review_examples: one
\* call of index_markdown_files; an exception it lets through ends index_all
IndexCollection(open_ok, add_ok) ==
    /\ ix_pc \in Range(CollectionNames)
    /\ LET r == index_markdown_files(store, kb[ix_pc], ix_pc, TypeTag(ix_pc),
                                     open_ok, add_ok)
           k == CHOOSE i \in DOMAIN CollectionNames : CollectionNames[i] = ix_pc
       IN  /\ store' = r.store
           /\ ix_cur' = [ix_cur EXCEPT !.entries = Append(@, r.entry)]
           /\ ix_pc' = IF r.raised THEN "idle"
                       ELSE IF k < Len(CollectionNames) THEN CollectionNames[k + 1]
                       ELSE "stats"
    /\ UNCHANGED <<kb, ix_run_no, ix_prev>>
    /\ UNCHANGED <<crew_vars, diff_vars, chunk_vars, rest_vars>>

\* What the backend does in one count_documents call: it answers both
\* calls, get_or_create_collection raises, or Collection.count raises
CountAnswers == {"ok", "open_raises", "count_raises"}

\* The statistics loop at the end of index_all (indexer.py lines 149-152):
\* three count_documents calls, each catching its own exception; answers[i]
\* is what the backend does in the i-th
LogStatistics(answers) ==
    /\ ix_pc = "stats"
    /\ LET count(st, i) == count_documents(st, CollectionNames[i],
                                           answers[i] # "open_raises",
                                           answers[i] # "count_raises")
           c1 == count(store, 1)
           c2 == count(c1.store, 2)
           c3 == count(c2.store, 3)
       IN  /\ store' = c3.store
           /\ ix_cur' = [ix_cur EXCEPT !.stats =
                             Some(<<c1.returned, c2.returned, c3.returned>>)]
    /\ ix_pc' = "idle"
    /\ UNCHANGED <<kb, ix_run_no, ix_prev>>
    /\ UNCHANGED <<crew_vars, diff_vars, chunk_vars, rest_vars>>

\* Between two index_all calls somebody changes one directory
EditKnowledgeBase(c, d) ==
    /\ ix_pc = "idle"
    /\ ix_run_no >= 1
    /\ ix_run_no < MaxIndexRuns
    /\ kb = ix_cur.kb
    /\ kb[c] # d
    /\ kb' = [kb EXCEPT ![c] = d]
    /\ UNCHANGED <<store, ix_pc, ix_run_no, ix_cur, ix_prev>>
    /\ UNCHANGED <<crew_vars, diff_vars, chunk_vars, rest_vars>>

IndexNext ==
    \/ StartIndexAll
    \/ \E open_ok \in BOOLEAN, add_ok \in BOOLEAN : IndexCollection(open_ok, add_ok)
    \/ \E answers \in [DOMAIN CollectionNames -> CountAnswers] : LogStatistics(answers)
    \/ \E e \in Edits : EditKnowledgeBase(e[1], e[2])

IndexSpec == IndexInit /\ [][IndexNext]_vars

----
\* KnowledgeBaseIndexer.reset_and_reindex called on a store that index_all
\* has filled

\* Bound: the number of reset_and_reindex calls
MaxResets == 1

\* index_all run to its end on store st over knowledge base k, the backend
\* answering every call
index_all(st, k) ==
    LET r1 == index_markdown_files(st, k[CollectionNames[1]], CollectionNames[1],
                                   TypeTag(CollectionNames[1]), TRUE, TRUE)
        r2 == index_markdown_files(r1.store, k[CollectionNames[2]], CollectionNames[2],
                                   TypeTag(CollectionNames[2]), TRUE, TRUE)
        r3 == index_markdown_files(r2.store, k[CollectionNames[3]], CollectionNames[3],
                                   TypeTag(CollectionNames[3]), TRUE, TRUE)
        c1 == count_documents(r3.store, CollectionNames[1], TRUE, TRUE)
        c2 == count_documents(c1.store, CollectionNames[2], TRUE, TRUE)
        c3 == count_documents(c2.store, CollectionNames[3], TRUE, TRUE)
    IN  [store |-> c3.store,
         call |-> [kb |-> k, reset |-> FALSE, deleted |-> << >>,
                   entries |-> <<r1.entry, r2.entry, r3.entry>>,
                   stats |-> Some(<<c1.returned, c2.returned, c3.returned>>)]]

ResetKnowledgeBases ==
    {[best_practices |-> d1, code_patterns |-> DirShort, review_examples |-> DirShort] :
        d1 \in {DirOne, DirClash, DirMissing}}

\* What happens to a directory before a reset_and_reindex
ResetEdits == {<<"best_practices", DirShort>>}

\* index_all has been run once
ResetInit ==
    /\ CrewInit /\ store_up
    /\ DiffIdle
    /\ ChunkIdle
    /\ RestIdle
    /\ kb \in ResetKnowledgeBases
    /\ store = index_all(<< >>, kb).store
    /\ ix_cur = index_all(<< >>, kb).call
    /\ ix_pc = "idle"
    /\ ix_run_no = 1
    /\ ix_prev = None

\* reset_and_reindex is called
StartResetAndReindex ==
    /\ ix_pc = "idle"
    /\ ix_run_no <= MaxResets
    /\ ix_run_no' = ix_run_no + 1
    /\ ix_pc' = "reset"
    /\ ix_prev' = IF ix_run_no = 0 THEN None ELSE Some([ix_cur EXCEPT !.stats = None])
    /\ ix_cur' = [kb |-> kb, reset |-> TRUE, deleted |-> << >>, entries |-> << >>,
                  stats |-> None]
    /\ UNCHANGED <<kb, store>>
    /\ UNCHANGED <<crew_vars, diff_vars, chunk_vars, rest_vars>>

\* One pass of the loop of reset_and_reindex: delete_collection is called and
\* what it returns is dropped; after the third pass index_all is called
DeleteCollection(backend_ok) ==
    /\ ix_pc = "reset"
    /\ LET k == Len(ix_cur.deleted) + 1
           name == CollectionNames[k]
           r == delete_collection(store, name, backend_ok)
       IN  /\ store' = r.store
           /\ ix_cur' = [ix_cur EXCEPT !.deleted =
                             Append(@, [collection |-> name,
                                        existed |-> name \in DOMAIN store,
                                        returned |-> r.returned])]
           /\ ix_pc' = IF k < Len(CollectionNames) THEN "reset" ELSE CollectionNames[1]
    /\ UNCHANGED <<kb, ix_run_no, ix_prev>>
    /\ UNCHANGED <<crew_vars, diff_vars, chunk_vars, rest_vars>>

ResetNext ==
    \/ StartResetAndReindex
    \/ \E backend_ok \in BOOLEAN : DeleteCollection(backend_ok)
    \/ \E open_ok \in BOOLEAN, add_ok \in BOOLEAN : IndexCollection(open_ok, add_ok)
    \/ \E answers \in [DOMAIN CollectionNames -> CountAnswers] : LogStatistics(answers)
    \/ \E e \in ResetEdits : EditKnowledgeBase(e[1], e[2])

ResetSpec == ResetInit /\ [][ResetNext]_vars

----
\* VectorStore.query and the Retriever, called on a store that index_all fills

\* Distances and scores are counted in tenths: One is the 1.0 of the code
One == 10

\* Cosine distances the backend may report for a record
Distances == {0, 5, 10, 15, 20}

\* settings.retrieval_k
retrieval_k == 5

\* The default of retrieve's parameter collection_name
DefaultCollection == "code_reviews"

\* A metadata filter is a dict; None and the empty dict filter nothing
NoFilter == << >>

\* The where clause of a query: every key of the filter has that value
Matches(metadata, where) ==
    \A key \in DOMAIN where : key \in DOMAIN metadata /\ metadata[key] = where[key]

\* What chromadb's Collection.query may answer: the n_results nearest of the
\* records that match where (all of them when there are fewer), nearest
\* first; the distance of a record to the query text is the embedding's
QueryAnswers(records, where, n_results) ==
    LET matching == {id \in DOMAIN records : Matches(records[id].metadata, where)}
        n == Min({n_results, Cardinality(matching)})
    IN  {a \in SeqsUpTo(matching \X Distances, n) :
            /\ Len(a) = n
            /\ \A i \in DOMAIN a, j \in DOMAIN a :
                  i < j => (a[i][1] # a[j][1] /\ a[i][2] <= a[j][2])}

\* The dict query returns when the backend raised
EmptyResults == [documents |-> << >>, metadatas |-> << >>, distances |-> << >>]

\* A query that lets the backend's exception through
query_raising(st, collection_name, where, n_results, open_ok, query_ok, answer) ==
    IF ~open_ok THEN [returned |-> EmptyResults, raised |-> TRUE, store |-> st]
    ELSE LET created == get_or_create_collection(st, collection_name)
             records == created[collection_name]
         IN  [returned |->
                  IF ~query_ok THEN EmptyResults
                  ELSE [documents |-> <<[i \in DOMAIN answer |->
                                           records[answer[i][1]].document]>>,
                        metadatas |-> <<[i \in DOMAIN answer |->
                                           records[answer[i][1]].metadata]>>,
                        distances |-> <<[i \in DOMAIN answer |-> answer[i][2]]>>],
              raised |-> ~query_ok, store |-> created]

\* VectorStore.query for one query text: open_ok and query_ok say whether the
\* backend answers get_or_create_collection and Collection.query, answer is
\* what Collection.query finds
query(st, collection_name, where, n_results, open_ok, query_ok, answer) ==
    IF ~open_ok THEN [returned |-> EmptyResults, raised |-> FALSE, store |-> st]
    ELSE LET created == get_or_create_collection(st, collection_name)
             records == created[collection_name]
         IN  IF ~query_ok
             THEN [returned |-> EmptyResults, raised |-> FALSE, store |-> created]
             ELSE [returned |->
                       [documents |-> <<[i \in DOMAIN answer |->
                                            records[answer[i][1]].document]>>,
                        metadatas |-> <<[i \in DOMAIN answer |->
                                            records[answer[i][1]].metadata]>>,
                        distances |-> <<[i \in DOMAIN answer |-> answer[i][2]]>>],
                   raised |-> FALSE, store |-> created]

\* k or self.k
EffectiveK(k) == IF k = None \/ k[1] = 0 THEN retrieval_k ELSE k[1]

\* The loop of retrieve over the documents of the first query text
Hits(results) ==
    LET docs == results.documents[1]
        metadatas == results.metadatas[1]
        distances == results.distances[1]
    IN  [i \in DOMAIN docs |->
            [content |-> docs[i],
             metadata |-> IF i <= Len(metadatas) THEN metadatas[i] ELSE << >>,
             distance |-> IF i <= Len(distances) THEN distances[i] ELSE One,
             relevance_score |-> One - (IF i <= Len(distances) THEN distances[i] ELSE One)]]

\* Retriever.retrieve
retrieve(st, collection_name, k, filters, open_ok, query_ok, answer) ==
    LET q == query(st, collection_name, filters, EffectiveK(k), open_ok, query_ok, answer)
    IN  [returned |-> IF q.raised \/ q.returned.documents = << >> THEN << >>
                      ELSE Hits(q.returned),
         raised |-> FALSE, store |-> q.store]

\* if language: (and the like): the argument was given and is not empty
Given(arg) == arg # None /\ arg[1] # ""

\* The arguments with which each query method calls retrieve
RetrieveArgs(collection_name, k, filters) ==
    [collection_name |-> collection_name, k |-> k, filters |-> filters]

retrieve_by_language(language, k) ==
    RetrieveArgs(DefaultCollection, k, "language" :> language)

retrieve_by_category(category, k) ==
    RetrieveArgs(DefaultCollection, k, "category" :> category)

retrieve_best_practices(language, k) ==
    RetrieveArgs("best_practices", k,
                 IF Given(language)
                 THEN ("type" :> "best_practice") @@ ("language" :> language[1])
                 ELSE "type" :> "best_practice")

retrieve_code_patterns(pattern_type, k) ==
    RetrieveArgs("code_patterns", k,
                 IF Given(pattern_type) THEN "pattern_type" :> pattern_type[1] ELSE NoFilter)

retrieve_review_examples(issue_type, k) ==
    RetrieveArgs("review_examples", k,
                 IF Given(issue_type) THEN "issue_type" :> issue_type[1] ELSE NoFilter)

\* The query methods of the Retriever; retrieve is called without filters,
\* with or without a collection name
Methods ==
    {"retrieve", "retrieve_by_language", "retrieve_by_category", "retrieve_best_practices",
     "retrieve_code_patterns", "retrieve_review_examples"}

\* What a caller passes: the optional argument of the method and k
MethodArgs(method) ==
    CASE method = "retrieve" -> {None, Some("best_practices")}
      [] method \in {"retrieve_by_language", "retrieve_by_category"} -> {Some("python")}
      [] OTHER -> {None, Some(""), Some("python")}

Ks == {None, Some(0), Some(1)}

ArgsOf(method, arg, k) ==
    CASE method = "retrieve" ->
             RetrieveArgs(IF arg = None THEN DefaultCollection ELSE arg[1], k, NoFilter)
      [] method = "retrieve_by_language" -> retrieve_by_language(arg[1], k)
      [] method = "retrieve_by_category" -> retrieve_by_category(arg[1], k)
      [] method = "retrieve_best_practices" -> retrieve_best_practices(arg, k)
      [] method = "retrieve_code_patterns" -> retrieve_code_patterns(arg, k)
      [] method = "retrieve_review_examples" -> retrieve_review_examples(arg, k)

\* a.md and b.md, one chunk each
DirTwo == Dir((NameA :> File(<<"a">>, TRUE)) @@ (NameB :> File(<<"b">>, TRUE)))

RetrieveKnowledgeBases ==
    {[best_practices |-> d1, code_patterns |-> DirShort, review_examples |-> DirShort] :
        d1 \in {DirTwo, DirMissing}}

RetrieveInit ==
    /\ CrewInit /\ store_up
    /\ DiffIdle
    /\ ChunkIdle
    /\ RestIdle
    /\ kb \in RetrieveKnowledgeBases
    /\ store = << >>
    /\ ix_pc = "idle"
    /\ ix_run_no = 0
    /\ ix_cur = [kb |-> << >>, reset |-> FALSE, deleted |-> << >>, entries |-> << >>,
                 stats |-> None]
    /\ ix_prev = None

\* The records of a collection that may not exist yet
RecordsIn(st, collection_name) ==
    IF collection_name \in DOMAIN st THEN st[collection_name] ELSE << >>

\* A caller queries the store directly
QueryStore(collection_name, where, n_results, open_ok, query_ok) ==
    /\ ix_pc = "idle"
    /\ \E answer \in QueryAnswers(RecordsIn(store, collection_name), where, n_results) :
          LET q == query(store, collection_name, where, n_results, open_ok, query_ok, answer)
          IN  /\ rt_call' = Some([method |-> "query", collection_name |-> collection_name,
                                  open_ok |-> open_ok, query_ok |-> query_ok])
              /\ rt_returned' = Some([returned |-> q.returned, raised |-> q.raised])
              /\ store' = q.store
    /\ UNCHANGED <<kb, ix_pc, ix_run_no, ix_cur, ix_prev>>
    /\ UNCHANGED <<crew_vars, diff_vars, chunk_vars, embed_vars, cix, crv>>

\* A caller calls one of the query methods of the Retriever
CallRetriever(method, arg, k, open_ok, query_ok) ==
    /\ ix_pc = "idle"
    /\ LET args == ArgsOf(method, arg, k)
       IN  \E answer \in QueryAnswers(RecordsIn(store, args.collection_name), args.filters,
                                      EffectiveK(args.k)) :
              LET r == retrieve(store, args.collection_name, args.k, args.filters,
                                open_ok, query_ok, answer)
              IN  /\ rt_call' = Some([method |-> method,
                                      collection_name |-> args.collection_name,
                                      open_ok |-> open_ok, query_ok |-> query_ok])
                  /\ rt_returned' = Some([returned |-> r.returned, raised |-> r.raised])
                  /\ store' = r.store
    /\ UNCHANGED <<kb, ix_pc, ix_run_no, ix_cur, ix_prev>>
    /\ UNCHANGED <<crew_vars, diff_vars, chunk_vars, embed_vars, cix, crv>>

RetrieveNext ==
    \/ StartIndexAll
    \/ IndexCollection(TRUE, TRUE)
    \/ LogStatistics([i \in DOMAIN CollectionNames |-> "ok"])
    \/ \E c \in Range(CollectionNames) \cup {DefaultCollection}, n \in 1..2,
          open_ok \in BOOLEAN, query_ok \in BOOLEAN :
              QueryStore(c, NoFilter, n, open_ok, query_ok)
    \/ \E method \in Methods, k \in Ks, open_ok \in BOOLEAN, query_ok \in BOOLEAN :
          \E arg \in MethodArgs(method) : CallRetriever(method, arg, k, open_ok, query_ok)

RetrieveSpec == RetrieveInit /\ [][RetrieveNext]_vars

----
\* Several reset_and_reindex calls running at the same time on one store
\* (indexer.py and vector_store.py hold no lock); the backend is up, and each
\* call of the backend is one step: delete_collection, and the two calls
\* add_documents and count_documents make (get_or_create_collection, then
\* Collection.add or Collection.count on the collection it handed back)

\* Bound: the number of concurrent runs
MaxRuns == 2

\* Where a run is: before its call ("idle"), about to delete collection k
\* ("delete"), about to call index_markdown_files for collection k ("index"),
\* inside add_documents between its two backend calls ("add"), about to call
\* count_documents for collection k ("stats"), inside count_documents between
\* its two backend calls ("count"), or returned ("done").  handle: the
\* collection the run was handed is still in the store; added and counts:
\* what add_documents and count_documents returned to the run so far.
RunAt(at, k) == [at |-> at, k |-> k, handle |-> FALSE, added |-> << >>, counts |-> << >>]

ConcKnowledgeBases ==
    {[best_practices |-> d1, code_patterns |-> DirShort, review_examples |-> DirShort] :
        d1 \in {DirTwo, DirShort}}

ConcInit ==
    /\ CrewInit /\ store_up
    /\ DiffIdle
    /\ ChunkIdle
    /\ RetrieverIdle
    /\ EmbedIdle
    /\ crv = << >>
    /\ kb \in ConcKnowledgeBases
    /\ store = index_all(<< >>, kb).store
    /\ ix_pc = "idle"
    /\ ix_run_no = 0
    /\ ix_cur = [kb |-> << >>, reset |-> FALSE, deleted |-> << >>, entries |-> << >>,
                 stats |-> None]
    /\ ix_prev = None
    /\ cix = [r \in 1..MaxRuns |-> RunAt("idle", 0)]

\* Run r calls reset_and_reindex
ConcStart(r) ==
    /\ cix[r].at = "idle"
    /\ cix' = [cix EXCEPT ![r].at = "delete", ![r].k = 1]
    /\ UNCHANGED indexer_vars
    /\ UNCHANGED <<crew_vars, diff_vars, chunk_vars, retriever_vars, embed_vars, crv>>

\* The runs after collection number k was dropped: a handle on it is void
Dropped(runs, k) ==
    [q \in DOMAIN runs |->
        IF runs[q].at \in {"add", "count"} /\ runs[q].k = k
        THEN [runs[q] EXCEPT !.handle = FALSE]
        ELSE runs[q]]

\* Run r: one pass of the loop of reset_and_reindex
ConcDelete(r) ==
    /\ cix[r].at = "delete"
    /\ LET k == cix[r].k
           d == delete_collection(store, CollectionNames[k], TRUE)
           runs == IF d.returned THEN Dropped(cix, k) ELSE cix
       IN  /\ store' = d.store
           /\ cix' = [runs EXCEPT ![r].at = IF k < Len(CollectionNames)
                                            THEN "delete" ELSE "index",
                                  ![r].k = IF k < Len(CollectionNames) THEN k + 1 ELSE 1]
    /\ UNCHANGED <<kb, ix_pc, ix_run_no, ix_cur, ix_prev>>
    /\ UNCHANGED <<crew_vars, diff_vars, chunk_vars, retriever_vars, embed_vars, crv>>

\* Where a run goes after index_markdown_files for collection number k
AfterIndex(k) == IF k < Len(CollectionNames) THEN <<"index", k + 1>> ELSE <<"stats", 1>>

\* Run r: index_markdown_files up to the first backend call of add_documents
\* (get_or_create_collection); it returns at once when there is no directory
\* or no chunk
ConcIndex(r) ==
    /\ cix[r].at = "index"
    /\ LET k == cix[r].k
           name == CollectionNames[k]
           called == kb[name].exists /\ DirBatch(kb[name], TypeTag(name)) # {}
       IN  IF called
           THEN /\ store' = get_or_create_collection(store, name)
                /\ cix' = [cix EXCEPT ![r].at = "add", ![r].handle = TRUE]
           ELSE /\ store' = store
                /\ cix' = [cix EXCEPT ![r].at = AfterIndex(k)[1], ![r].k = AfterIndex(k)[2],
                                      ![r].added = Append(@, None)]
    /\ UNCHANGED <<kb, ix_pc, ix_run_no, ix_cur, ix_prev>>
    /\ UNCHANGED <<crew_vars, diff_vars, chunk_vars, retriever_vars, embed_vars, crv>>

\* Run r: Collection.add, the second backend call of add_documents; it
\* raises when the collection was dropped after the run was handed it
ConcAdd(r) ==
    /\ cix[r].at = "add"
    /\ LET k == cix[r].k
           name == CollectionNames[k]
           batch == DirBatch(kb[name], TypeTag(name))
           added == cix[r].handle /\ ~DuplicateIds(batch)
       IN  /\ store' = IF added
                       THEN [store EXCEPT ![name] = collection_add(@, batch)]
                       ELSE store
           /\ cix' = [cix EXCEPT ![r].at = AfterIndex(k)[1], ![r].k = AfterIndex(k)[2],
                                 ![r].handle = FALSE,
                                 ![r].added = Append(@, Some(added))]
    /\ UNCHANGED <<kb, ix_pc, ix_run_no, ix_cur, ix_prev>>
    /\ UNCHANGED <<crew_vars, diff_vars, chunk_vars, retriever_vars, embed_vars, crv>>

\* Run r: get_or_create_collection, the first backend call of one
\* count_documents of the statistics loop
ConcStats(r) ==
    /\ cix[r].at = "stats"
    /\ store' = get_or_create_collection(store, CollectionNames[cix[r].k])
    /\ cix' = [cix EXCEPT ![r].at = "count", ![r].handle = TRUE]
    /\ UNCHANGED <<kb, ix_pc, ix_run_no, ix_cur, ix_prev>>
    /\ UNCHANGED <<crew_vars, diff_vars, chunk_vars, retriever_vars, embed_vars, crv>>

\* Run r: Collection.count, the second backend call of count_documents; it
\* raises when the collection was dropped after the run was handed it.  After
\* the third count the run returns
ConcCount(r) ==
    /\ cix[r].at = "count"
    /\ LET k == cix[r].k
           count == IF cix[r].handle
                    THEN Cardinality(DOMAIN store[CollectionNames[k]])
                    ELSE 0
       IN  cix' = [cix EXCEPT ![r].at = IF k < Len(CollectionNames) THEN "stats" ELSE "done",
                              ![r].k = IF k < Len(CollectionNames) THEN k + 1 ELSE 0,
                              ![r].handle = FALSE,
                              ![r].counts = Append(@, count)]
    /\ UNCHANGED indexer_vars
    /\ UNCHANGED <<crew_vars, diff_vars, chunk_vars, retriever_vars, embed_vars, crv>>

ConcNext ==
    \E r \in 1..MaxRuns :
        \/ ConcStart(r)
        \/ ConcDelete(r)
        \/ ConcIndex(r)
        \/ ConcAdd(r)
        \/ ConcStats(r)
        \/ ConcCount(r)

ConcSpec == ConcInit /\ [][ConcNext]_vars

----
\* EmbeddingModel.embed_text called with a list of texts.  A text is a
\* sequence of characters, as in _chunk_document.

\* Bound: the length of the list of texts
MaxTexts == 3

Texts == {<<"a">>, <<"b">>, << >>, <<" ">>}

\* The vector the embedding service computes for a text
Embedding(t) == <<"embedding of">> \o t

\* client.embeddings.create: one item per input, in the order of the inputs
embeddings_create(input) == [i \in DOMAIN input |-> Embedding(input[i])]

\* if t.strip()
NotBlank(t) == strip(t) # << >>

\* EmbeddingModel.embed_text for a list; api_ok says whether the embedding
\* service answers
embed_text(text, api_ok) ==
    LET texts == SelectSeq(text, NotBlank)
    IN  IF texts = << >> THEN Return(<< >>)
        ELSE IF ~api_ok THEN Raise(<<"embedding service error">>)
        ELSE Return(embeddings_create(texts))

EmbedInit ==
    /\ CrewInit /\ store_up
    /\ DiffIdle
    /\ ChunkIdle
    /\ IndexerIdle
    /\ RetrieverIdle
    /\ cix = << >>
    /\ crv = << >>
    /\ em_texts \in SeqsUpTo(Texts, MaxTexts)
    /\ em_returned = None

\* embeddings = model.embed_text(texts)
EmbedText(api_ok) ==
    /\ em_returned = None
    /\ em_returned' = Some(embed_text(em_texts, api_ok))
    /\ UNCHANGED em_texts
    /\ UNCHANGED <<crew_vars, diff_vars, chunk_vars, indexer_vars, retriever_vars, cix, crv>>

EmbedNext == \E api_ok \in BOOLEAN : EmbedText(api_ok)

EmbedSpec == EmbedInit /\ [][EmbedNext]_vars

----
\* Several review_pull_request calls running at the same time on one
\* ReviewCrew.  pr, context, the agents, the tasks and the crew are locals of
\* each call (crew_orchestrator.py lines 172-275); the calls share self.llm,
\* self.adapters and the other attributes set by __init__, which no call
\* assigns to.

\* What the reasoning capability answers to the stages of run r
ReplyTo(r) == "reply to run " \o ToString(r)

\* What the hosting provider answers to the fetch of a run
ConcAnswers ==
    {[err |-> None, data |-> RemoteFull], [err |-> None, data |-> RemoteTwo],
     [err |-> Some(<<"timed out">>), data |-> RemoteEmpty]}

ConcUrls == {UrlGithub, UrlOther}

\* The locals of a call that has not been made
NoCall ==
    [at |-> "idle", pr_url |-> << >>, platform |-> None, answer |-> None, pr |-> None,
     context |-> None, task_idx |-> 0, task_output |-> NoOutputs, result |-> None]

\* A crew that was constructed, and no call made on it yet
ConcReviewInit ==
    /\ crew_state = "ready"
    /\ store_up = TRUE
    /\ bitbucket_client = FALSE
    /\ run = 0
    /\ pc = "idle"
    /\ pr_url = << >>
    /\ platform = None
    /\ pr = None
    /\ context = None
    /\ task_idx = 0
    /\ task_input = NoInputs
    /\ task_output = NoOutputs
    /\ failed_at = ""
    /\ result = None
    /\ DiffIdle
    /\ ChunkIdle
    /\ IndexerIdle
    /\ RetrieverIdle
    /\ EmbedIdle
    /\ cix = << >>
    /\ crv = [r \in 1..MaxRuns |-> NoCall]

\* The except clause of run r
RunFail(runs, r, e) ==
    [runs EXCEPT ![r].at = "done", ![r].result = Some(ErrorResult(e, runs[r].pr_url))]

\* Faulty variant: the Task objects are kept on the crew object, so a stage
\* output written by one run is the output of that stage in every run
WriteOutput_shared(runs, r, t, reply) ==
    [q \in DOMAIN runs |-> [runs[q] EXCEPT !.task_output[t] = reply]]

\* A stage of run r stores its output in the Task object of that run
WriteOutput(runs, r, t, reply) ==
    [runs EXCEPT ![r].task_output[t] = reply]

\* Run r: review_pull_request(url) is called
RunStart(r, url) ==
    /\ crv[r].at = "idle"
    /\ crv' = [crv EXCEPT ![r].at = "start", ![r].pr_url = url]

\* Run r: lines 162-163
RunDetectPlatform(r) ==
    /\ crv[r].at = "start"
    /\ LET d == _detect_platform(crv[r].pr_url)
       IN  crv' = IF d.ok
                  THEN [crv EXCEPT ![r].at = "fetch", ![r].platform = d.value]
                  ELSE RunFail(crv, r, d.error)

\* Run r: lines 168-173
RunFetch(r, answer) ==
    /\ crv[r].at = "fetch"
    /\ LET f == fetch_pull_request(crv[r].platform[1], crv[r].pr_url, answer,
                                   bitbucket_client)
       IN  crv' = IF f.ok
                  THEN [crv EXCEPT ![r].at = "prepare", ![r].pr = f.value,
                                   ![r].answer = Some(answer)]
                  ELSE RunFail([crv EXCEPT ![r].answer = Some(answer)], r, f.error)

\* Run r: line 176
RunPrepareContext(r) ==
    /\ crv[r].at = "prepare"
    /\ crv' = [crv EXCEPT ![r].at = "kickoff",
                          ![r].context = Some(_prepare_pr_context(crv[r].pr[1]))]

\* Run r: lines 178-279, up to the start of the first task
RunKickoff(r) ==
    /\ crv[r].at = "kickoff"
    /\ crv' = [crv EXCEPT ![r].at = "task", ![r].task_idx = 1]

\* Run r: the running task gets its reply; the next task starts, or kickoff
\* returns and the success dict is returned
RunTaskOk(r, reply) ==
    /\ crv[r].at = "task"
    /\ LET written == WriteOutput(crv, r, tasks[crv[r].task_idx], reply)
       IN  crv' = IF crv[r].task_idx < Len(tasks)
                  THEN [written EXCEPT ![r].task_idx = @ + 1]
                  ELSE [written EXCEPT
                           ![r].at = "done",
                           ![r].result =
                               Some(SuccessResult(written[r].context[1],
                                                  written[r].task_output[tasks[Len(tasks)]],
                                                  written[r].platform[1],
                                                  written[r].pr_url))]

\* Run r: the running task raises
RunTaskFail(r, e) ==
    /\ crv[r].at = "task"
    /\ crv' = RunFail(crv, r, e)

ConcReviewStep(r) ==
    \/ \E url \in ConcUrls : RunStart(r, url)
    \/ RunDetectPlatform(r)
    \/ \E answer \in ConcAnswers : RunFetch(r, answer)
    \/ RunPrepareContext(r)
    \/ RunKickoff(r)
    \/ RunTaskOk(r, ReplyTo(r))
    \/ \E e \in LLMErrors : RunTaskFail(r, e)

ConcReviewNext ==
    /\ \E r \in 1..MaxRuns : ConcReviewStep(r)
    /\ UNCHANGED <<crew_vars, diff_vars, chunk_vars, indexer_vars, retriever_vars,
                   embed_vars, cix>>

ConcReviewSpec == ConcReviewInit /\ [][ConcReviewNext]_vars

----
\* Properties of the staged pipeline

Analyze == "analysis_task"

Retrieve == "retrieval_task"

Critique == "critic_task"

Synthesize == "synthesis_task"

\* The dependency graph of the four stages
DeclaredDeps(t) ==
    CASE t = Analyze -> {}
      [] t = Retrieve -> {Analyze}
      [] t = Critique -> {Analyze}
      [] t = Synthesize -> {Analyze, Retrieve, Critique}

PhaseOrder == <<"Created", "PlatformDetected", "Fetched", "ContextPrepared",
                "Analyzing", "Retrieving", "Critiquing", "Synthesizing", "Completed">>

StagePhase(t) ==
    CASE t = Analyze -> "Analyzing"
      [] t = Retrieve -> "Retrieving"
      [] t = Critique -> "Critiquing"
      [] t = Synthesize -> "Synthesizing"

\* The phase of the review's state machine the run is in
Phase ==
    CASE pc = "idle" -> "NotStarted"
      [] pc = "start" -> "Created"
      [] pc = "fetch" -> "PlatformDetected"
      [] pc = "prepare" -> "Fetched"
      [] pc = "kickoff" -> "ContextPrepared"
      [] pc = "task" -> StagePhase(tasks[task_idx])
      [] pc = "done" -> IF result[1].success THEN "Completed" ELSE "Failed"

Rank(ph) == CHOOSE i \in DOMAIN PhaseOrder : PhaseOrder[i] = ph

Written(t) == task_output[t] # NoOutput

Running(t) == pc = "task" /\ tasks[task_idx] = t

StageFailed(t) == pc = "done" /\ failed_at = t

\* C1: within one run of review_pull_request every step moves the review to a
\* strictly later phase of Created, PlatformDetected, Fetched, ContextPrepared,
\* Analyzing, Retrieving, Critiquing, Synthesizing, Completed, or to Failed;
\* no step leaves Failed or Completed, so no phase is entered twice and no
\* stage runs after a failure.
C1_PhasesStrictlyForward ==
    [][(run' = run /\ Phase # "NotStarted") =>
          /\ Phase \notin {"Failed", "Completed"}
          /\ \/ Phase' = "Failed"
             \/ /\ Phase' \in Range(PhaseOrder)
                /\ Rank(Phase') > Rank(Phase)]_vars

C1_Witness == Phase = "Completed" /\ \A t \in TaskNames : Written(t)

\* C2 as stated: when the Critique stage fails the review is failed with
\* Analyze's output present and Retrieve's and Synthesize's outputs absent.
C2_CritiqueFailureLeavesRetrieveAbsent ==
    StageFailed(Critique) =>
        /\ ~result[1].success
        /\ Written(Analyze)
        /\ ~Written(Retrieve)
        /\ ~Written(Synthesize)

\* C2 amended: when the Critique stage fails the review is failed with the
\* outputs of Analyze and of Retrieve (which ran before Critique) present
\* and the outputs of Critique and Synthesize absent.
C2_CritiqueFailureKeepsEarlierOutputs ==
    StageFailed(Critique) =>
        /\ ~result[1].success
        /\ Written(Analyze)
        /\ Written(Retrieve)
        /\ ~Written(Critique)
        /\ ~Written(Synthesize)

C2_Witness == StageFailed(Critique) /\ Written(Analyze)

\* C3: a stage is running only when every one of its declared dependencies
\* has written its output.
C3_StageRunsAfterDependencies ==
    \A t \in TaskNames : Running(t) => \A d \in DeclaredDeps(t) : Written(d)

C3_Witness == Running(Synthesize) /\ Written(Analyze) /\ Written(Retrieve) /\ Written(Critique)

\* The stage outputs a result dict carries
ResultTexts(r) == IF "review" \in DOMAIN r THEN {r.review} ELSE {}

\* C4: when a stage fails, the returned result contains every stage output
\* written before the failure.
C4_FailureResultKeepsPartialOutputs ==
    (pc = "done" /\ failed_at \in TaskNames) =>
        \A t \in TaskNames : Written(t) => task_output[t] \in ResultTexts(result[1])

\* C5: when a stage fails, the returned result names the stage that failed
\* together with the underlying cause.
C5_FailureResultNamesStage ==
    (pc = "done" /\ failed_at \in TaskNames) =>
        /\ result[1].error \in LLMErrors
        /\ \/ "stage" \in DOMAIN result[1]
           \/ \E i \in DOMAIN result[1].error : result[1].error[i] = failed_at

\* The stages whose outputs were handed to stage t
InputStages(t) == {task_input[t][1].context[i].task : i \in DOMAIN task_input[t][1].context}

\* C6: the input of a started stage holds the outputs of exactly its declared
\* dependencies, each as that dependency wrote it; Critique's input never
\* holds Retrieve's output.
C6_InputOnlyFromDeclaredDeps ==
    \A t \in TaskNames :
        task_input[t] # None =>
            /\ InputStages(t) = DeclaredDeps(t)
            /\ \A i \in DOMAIN task_input[t][1].context :
                  task_input[t][1].context[i].raw =
                      task_output[task_input[t][1].context[i].task]

C6_Witness == task_input[Critique] # None /\ Written(Retrieve)

\* C7: within one review a written stage output is never changed or removed,
\* and an output is only ever written under the name of the stage running.
C7_OutputsAppendOnly ==
    [][run' = run =>
          \A t \in TaskNames :
              /\ Written(t) => task_output'[t] = task_output[t]
              /\ task_output'[t] # task_output[t] => Running(t)]_vars

C7_Witness == StageFailed(Synthesize) /\ Written(Analyze) /\ Written(Retrieve) /\ Written(Critique)

\* C8: a successful review returns Synthesize's output together with the
\* change counts computed from the parsed hunks.
C8_SuccessReportsLocalSummary ==
    (pc = "done" /\ result[1].success) =>
        /\ result[1].review = task_output[Synthesize]
        /\ IF "change_summary" \in DOMAIN result[1]
           THEN result[1].change_summary = context[1].change_summary
           ELSE /\ result[1].pr_info.additions = context[1].change_summary.total_added
                /\ result[1].pr_info.deletions = context[1].change_summary.total_removed
                /\ result[1].pr_info.files_changed = context[1].change_summary.files_changed

\* C9: when the adapter's fetch fails no stage has run, and the returned
\* failure differs from every failure a stage of the pipeline can return.
C9_FetchFailureIsDistinct ==
    (pc = "done" /\ failed_at = "fetch") =>
        /\ \A t \in TaskNames : ~Written(t) /\ task_input[t] = None
        /\ \A e \in LLMErrors : result[1] # ErrorResult(e, pr_url)

\* C10: an unavailable vector store never keeps a review from starting.
C10_StoreOutageNeverBlocksReview ==
    ~store_up => crew_state # "init_failed"

----
\* DiffParser called on its own: properties

\* A text parse_patch cannot read hunks from: the empty string, a text the
\* diff reader fails on, a text with no diff line in it
Unreadable(patch) ==
    \/ patch = << >>
    \/ PatchSet(patch).err
    \/ \A i \in DOMAIN patch : patch[i].k = "text"

\* C11: parse_patch never raises to its caller; for the empty string, a
\* truncated hunk header, non-diff text and any input on which the diff
\* reader fails, the call returns and what it returns is the empty list.
C11_UnreadablePatchGivesNoHunks ==
    [][(dp_hunks = None /\ dp_hunks' # None /\ Unreadable(dp_patch))
          => dp_hunks' = Some(<< >>)]_vars

\* a readable first hunk, then a hunk cut short: the reader fails, the call
\* has returned, and no hunk is handed back
C11_Witness ==
    /\ dp_patch = PatchTruncated
    /\ PatchSet(dp_patch).err
    /\ dp_hunks = Some(<< >>)
\* The added lines of a hunk list, each named by its hunk and its place in it
AddedPositions(hunks) ==
    UNION {{<<i, j>> : j \in DOMAIN hunks[i].added_lines} : i \in DOMAIN hunks}

RemovedPositions(hunks) ==
    UNION {{<<i, j>> : j \in DOMAIN hunks[i].removed_lines} : i \in DOMAIN hunks}

\* four hunks over two files adding 3 + 1 + 1 + 2 lines and removing 1
FourHunksTwoFiles == <<HunkPyDefs, HunkPyEdit, HunkJsConst, HunkJsTwo>>

\* C12: for every hunk list get_change_summary leaves the list as it was and
\* returns added = all added lines, removed = all removed lines, files = the
\* number of distinct file paths, net = added - removed; four hunks over two
\* files adding 3 + 1 + 1 + 2 lines and removing 1 give 7, 1, 2 and 6.
C12_SummaryCountsLinesAndFiles ==
    [][(dp_summary = None /\ dp_summary' # None)
          => /\ dp_hunks' = dp_hunks
             /\ LET hs == dp_hunks[1]
                    s == dp_summary'[1]
                IN  /\ s.total_added = Cardinality(AddedPositions(hs))
                    /\ s.total_removed = Cardinality(RemovedPositions(hs))
                    /\ s.files_changed = Cardinality({hs[i].file_path : i \in DOMAIN hs})
                    /\ s.net_change = s.total_added - s.total_removed
                    /\ hs = FourHunksTwoFiles
                          => s = [total_added |-> 7, total_removed |-> 1,
                                  files_changed |-> 2, net_change |-> 6]]_vars

\* the summary of the four hunks over two files has been computed
C12_Witness ==
    /\ dp_hunks = Some(FourHunksTwoFiles)
    /\ dp_summary # None
    /\ dp_summary[1].total_added = 7
    /\ dp_summary[1].files_changed = 2
\* The symbols a file's pattern finds in the added and context lines of the
\* file's hunks
SymbolsKept(hunks, f) ==
    {n \in {m[3] : m \in patterns} :
        \E i \in DOMAIN hunks :
            /\ hunks[i].file_path = f
            /\ \E l \in Range(hunks[i].added_lines) \cup Range(hunks[i].context_lines) :
                   re_match(lang_map(Extension(f))[1], l[2]) = Some(n)}

\* C13: extract_functions matches only added and context lines against the
\* pattern of the file's language: a symbol that occurs only in removed lines
\* of a file is not in the result, and a file whose extension is unknown or
\* missing is not in the result.
C13_SymbolsFromKeptLinesOfKnownFiles ==
    (dp_hunks # None /\ dp_functions # None)
        => \A f \in DOMAIN dp_functions[1] :
              /\ lang_map(Extension(f)) # None
              /\ BagToSet(dp_functions[1][f]) \subseteq SymbolsKept(dp_hunks[1], f)

\* "gone" is defined in a removed line of a.py only and README.md has no
\* known extension: the result has a.py with "foo" alone
C13_Witness ==
    /\ dp_hunks = Some(<<HunkPyEdit, HunkReadme>>)
    /\ dp_functions = Some([f \in {"a.py"} |-> SetToBag({"foo"})])
\* C14: the result of extract_functions holds a file only if a symbol was
\* matched in it, and no symbol name appears twice for a file, also when the
\* same symbol is matched in several hunks of that file.
C14_SymbolsOfAFileFormASet ==
    dp_functions # None
        => \A f \in DOMAIN dp_functions[1] :
              /\ BagToSet(dp_functions[1][f]) # {}
              /\ \A n \in BagToSet(dp_functions[1][f]) : CopiesIn(n, dp_functions[1][f]) = 1
----
\* _chunk_document called on its own: properties

\* The chunks joined with a blank line between them
RECURSIVE Join(_)
Join(chunks) ==
    IF chunks = << >> THEN << >>
    ELSE IF Len(chunks) = 1 THEN chunks[1]
    ELSE chunks[1] \o BlankLine \o Join(Tail(chunks))

\* C15: each chunk returned by _chunk_document(content, maxChars) has length
\* at most maxChars unless it consists of a single paragraph that alone is
\* longer than maxChars.
C15_ChunkWithinMaxChars ==
    ck_chunks # None
        => \A i \in DOMAIN ck_chunks[1] :
              \/ Len(ck_chunks[1][i]) <= ck_size
              \/ Len(split(ck_chunks[1][i])) = 1

NoLongParagraph(content, maxChars) ==
    \A i \in DOMAIN split(content) : Len(split(content)[i]) <= maxChars

\* Every paragraph is non-empty and neither begins nor ends with whitespace
TrimmedParagraphs(content) ==
    \A i \in DOMAIN split(content) :
        LET para == split(content)[i]
        IN  para # << >> /\ para[1] \notin Whitespace /\ para[Len(para)] \notin Whitespace

\* C16 as stated: for any content with no paragraph longer than maxChars,
\* joining the returned chunks in order with a blank line between them
\* reproduces content exactly.
C16_JoinedChunksAreContent ==
    (ck_chunks # None /\ NoLongParagraph(ck_content, ck_size))
        => Join(ck_chunks[1]) = ck_content

\* C16 (amended): for any content with no paragraph longer than maxChars
\* whose paragraphs are all non-empty and neither begin nor end with
\* whitespace, joining the returned chunks in order with a blank line between
\* them reproduces content exactly.
C16_JoinedChunksAreTrimmedContent ==
    (ck_chunks # None /\ NoLongParagraph(ck_content, ck_size)
       /\ TrimmedParagraphs(ck_content))
        => Join(ck_chunks[1]) = ck_content

\* "a", blank line, "b" with maxChars 1: two chunks that join back
C16_Witness ==
    /\ ck_content = <<"a", "\n", "\n", "b">>
    /\ ck_size = 1
    /\ ck_chunks = Some(<< <<"a">>, <<"b">> >>)
    /\ Join(ck_chunks[1]) = ck_content
----
\* Indexing: properties

\* The number of records a collection holds
Count(st, c) == IF c \in DOMAIN st THEN Cardinality(DOMAIN st[c]) ELSE 0

\* What a call of index_all recorded for collection c
EntryOf(call, c) ==
    LET held == {i \in DOMAIN call.entries : call.entries[i].collection = c}
    IN  IF held = {} THEN None ELSE Some(call.entries[CHOOSE i \in held : TRUE])

\* index_markdown_files is about to run on collection c, on which the call
\* of index_all before this one ran it with the same directory and the same
\* files
SecondRunOn(c) ==
    /\ ix_pc = c
    /\ ix_prev # None
    /\ ix_prev[1].kb[c] = kb[c]
    /\ EntryOf(ix_prev[1], c) # None

\* C17: indexing is idempotent: when index_markdown_files runs a second time
\* on the same directory with unchanged files into the same collection, the
\* collection's count after the second run is its count after the first.
C17_SecondRunKeepsCount ==
    [][\A i \in DOMAIN CollectionNames :
          (SecondRunOn(CollectionNames[i]) /\ ix_pc' # ix_pc)
              => Count(store', CollectionNames[i]) = Count(store, CollectionNames[i])]_vars

\* The chunks that were given an identifier: those of the batches of the
\* current and the previous call, and those the store holds
Submitted(call) ==
    UNION {{[id |-> b.id, document |-> b.document, source |-> b.metadata.source,
             chunk_index |-> b.metadata.chunk_index] : b \in call.entries[i].batch} :
              i \in DOMAIN call.entries}

Stored ==
    UNION {{[id |-> id, document |-> store[c][id].document,
             source |-> store[c][id].metadata.source,
             chunk_index |-> store[c][id].metadata.chunk_index] : id \in DOMAIN store[c]} :
              c \in DOMAIN store}

IndexedChunks ==
    Stored \cup Submitted(ix_cur) \cup (IF ix_prev = None THEN {} ELSE Submitted(ix_prev[1]))

\* C18: the identifier of an indexed chunk is a pure function of
\* (content, source): two chunks with equal content and equal source have the
\* same identifier, whatever their chunk index, in every indexing run.
C18_IdFromContentAndSource ==
    \A x \in IndexedChunks, y \in IndexedChunks :
        (x.document = y.document /\ x.source = y.source) => x.id = y.id

\* C19: adding an id the collection already holds replaces that id's stored
\* content and metadata, so after a re-index every stored chunk of the batch
\* the store accepted carries the content and the metadata (total_chunks for
\* instance) of the latest run.
C19_StoredChunksCarryLatestMetadata ==
    \A i \in DOMAIN ix_cur.entries :
        LET e == ix_cur.entries[i]
        IN  e.added = Some(TRUE)
               => \A b \in e.batch :
                     /\ b.id \in DOMAIN store[e.collection]
                     /\ store[e.collection][b.id] =
                            [document |-> b.document, metadata |-> b.metadata]

EntryFailed(e) == e.missing \/ e.unreadable # {} \/ e.added = Some(FALSE)

\* C20: index_all indexes the three collections independently: whatever
\* failed while one of them was indexed (a file that cannot be read, a store
\* write that failed, a missing directory), index_markdown_files has been
\* called for best_practices, code_patterns and review_examples, in this
\* order, when index_all is over.
C20_AllThreeCollectionsAttempted ==
    (ix_pc = "idle" /\ ix_run_no >= 1)
        => [i \in DOMAIN ix_cur.entries |-> ix_cur.entries[i].collection] = CollectionNames

\* best_practices had no directory, the write to code_patterns failed and a
\* file of review_examples could not be read; review_examples was written
C20_Witness ==
    /\ ix_pc = "idle"
    /\ Len(ix_cur.entries) = 3
    /\ ix_cur.entries[1].missing
    /\ ix_cur.entries[2].added = Some(FALSE)
    /\ ix_cur.entries[3].unreadable # {}
    /\ ix_cur.entries[3].added = Some(TRUE)
    /\ Count(store, "review_examples") > 0
----
\* reset_and_reindex: properties

\* The records collection c holds, as the batch that would store them
Records(st, c) ==
    IF c \in DOMAIN st
    THEN {[id |-> id, document |-> st[c][id].document, metadata |-> st[c][id].metadata] :
             id \in DOMAIN st[c]}
    ELSE {}

\* The chunks of the documents directory d holds
CurrentChunks(d, c) == IF d.exists THEN DirBatch(d, TypeTag(c)) ELSE {}

ResetCompleted == ix_pc = "idle" /\ ix_cur.reset /\ ix_cur.stats # None

\* C21: reset_and_reindex deletes the three collections before the first
\* write of the reindex, so when it completes each of the three collections
\* holds exactly the chunks of the current documents and nothing that was
\* indexed before the reset.
C21_ResetLeavesCurrentChunks ==
    ResetCompleted
        => \A k \in DOMAIN CollectionNames :
              Records(store, CollectionNames[k])
                  = CurrentChunks(ix_cur.kb[CollectionNames[k]], CollectionNames[k])
----
\* Querying: properties

Failed(call) == ~call.open_ok \/ ~call.query_ok

\* C22: a backend failure during a query never propagates as an exception:
\* VectorStore.query returns an empty result set (also when opening or
\* creating the collection fails) and Retriever.retrieve returns an empty
\* sequence of hits.
C22_QueryFailureGivesEmptyResult ==
    rt_call # None
        => /\ ~rt_returned[1].raised
           /\ Failed(rt_call[1])
                 => rt_returned[1].returned =
                        IF rt_call[1].method = "query" THEN EmptyResults ELSE << >>

\* the backend did not answer a query: the caller of VectorStore.query holds
\* the empty result set
C22_Witness ==
    /\ rt_call # None
    /\ rt_call[1].method = "query"
    /\ rt_call[1].collection_name = "best_practices"
    /\ Count(store, "best_practices") = 2
    /\ rt_call[1].open_ok /\ ~rt_call[1].query_ok
    /\ ~rt_returned[1].raised
    /\ rt_returned[1].returned = EmptyResults

Clamp(x, lo, hi) == IF x < lo THEN lo ELSE IF x > hi THEN hi ELSE x

\* C23: every hit returned by Retriever.retrieve has relevance =
\* clamp(1 - distance, 0, 1): for every distance in [0, 2] the relevance lies
\* in [0, 1], and it is 0 for every distance of 1 or more.
C23_RelevanceIsClamped ==
    (rt_call # None /\ rt_call[1].method # "query")
        => \A i \in DOMAIN rt_returned[1].returned :
              LET hit == rt_returned[1].returned[i]
              IN  /\ hit.distance \in 0..(2 * One)
                  /\ hit.relevance_score = Clamp(One - hit.distance, 0, One)

\* C30: every query method of the Retriever (retrieve with its default
\* collection, retrieve_by_language, retrieve_by_category,
\* retrieve_best_practices, retrieve_code_patterns, retrieve_review_examples)
\* searches one of the three collections index_all writes.
C30_QueriesSearchIndexedCollections ==
    (rt_call # None /\ rt_call[1].method # "query")
        => rt_call[1].collection_name \in Range(CollectionNames)
----
\* Concurrent indexing: properties

\* Run r has deleted collection number k and has not yet written it again
BetweenDeleteAndUpsert(r, k) ==
    \/ cix[r].at = "delete" /\ k < cix[r].k
    \/ cix[r].at \in {"index", "add"} /\ k >= cix[r].k

\* C24: concurrent indexing runs against the same collection are serialized
\* per collection: at any time at most one run is between the start and the
\* end of its delete/upsert of that collection, so two concurrent
\* reset_and_reindex runs never interleave their deletes and upsert batches
\* on one collection.
C24_OneRunPerCollection ==
    \A k \in DOMAIN CollectionNames :
        Cardinality({r \in DOMAIN cix : BetweenDeleteAndUpsert(r, k)}) <= 1

\* What interleaving costs: a run has returned and left every collection
\* with the chunks of the current documents
ReturnedRunLeftCurrentChunks ==
    \A r \in DOMAIN cix :
        cix[r].at = "done"
            => \A k \in DOMAIN CollectionNames :
                  Records(store, CollectionNames[k])
                      = CurrentChunks(kb[CollectionNames[k]], CollectionNames[k])
----
\* review_pull_request as its caller sees it

\* C28: review_pull_request never raises to its caller: whatever platform
\* detection (an unsupported URL or platform name included), fetch, context
\* preparation and stage execution do, the call ends by returning a result
\* that is either success = True with a review, or success = False with an
\* error message and the URL.
C28_ReviewAlwaysReturnsResult ==
    pc = "done"
        => /\ result # None
           /\ \/ /\ result[1].success
                 /\ DOMAIN result[1] = {"success", "pr_info", "review", "platform", "url"}
                 /\ result[1].review \in StageReplies
              \/ /\ ~result[1].success
                 /\ DOMAIN result[1] = {"success", "error", "url"}
                 /\ result[1].url = pr_url

\* the caller named a platform no adapter exists for and got the error dict
C28_Witness ==
    /\ pc = "done"
    /\ failed_at = "adapter"
    /\ platform # None /\ platform[1] \notin SupportedPlatforms
    /\ result # None
    /\ ~result[1].success
    /\ result[1].url = pr_url
\* The patch text holds at least one hunk header
HasHunk(patch) == \E i \in DOMAIN patch : patch[i].k = "hunk"

\* The files of pull request p whose patch text holds a hunk
FilesWithHunks(p) ==
    {p.files_changed[i].filename :
        i \in {j \in DOMAIN p.files_changed :
                  /\ p.files_changed[j].patch # None
                  /\ HasHunk(p.files_changed[j].patch[1])}}

\* C29: during context preparation every FileChange whose patch text holds
\* at least one hunk contributes its hunks to the change summary, attributed
\* to that FileChange's filename, also when the patch is hunk text only,
\* without ---/+++ file header lines.
C29_EveryPatchWithHunksContributes ==
    context # None
        => /\ \A f \in FilesWithHunks(pr[1]) :
                 \E j \in DOMAIN context[1].code_changes :
                     context[1].code_changes[j].file = f
           /\ context[1].change_summary.files_changed >= Cardinality(FilesWithHunks(pr[1]))
----
\* parse_patch and the lines of a hunk

\* The entries parse_patch recorded for hunk h
EntriesOf(h) == Range(h.added_lines) \cup Range(h.removed_lines) \cup Range(h.context_lines)

\* C27: parse_patch tolerates no-newline-at-end-of-file markers and hunks
\* without context lines: such a diff still yields its hunks, every entry of
\* a hunk's added, removed and context sequences is a diff line of that kind
\* carrying a line number, and a no-newline marker is never recorded as an
\* added, removed or context line.
C27_HunkEntriesAreNumberedDiffLines ==
    (dp_patch # << >> /\ dp_hunks # None)
        => /\ (~PatchSet(dp_patch).err)
                 => Len(dp_hunks[1]) =
                        Cardinality({i \in DOMAIN dp_patch : dp_patch[i].k = "hunk"})
           /\ \A i \in DOMAIN dp_hunks[1] :
                 LET h == dp_hunks[1][i]
                 IN  /\ \A e \in EntriesOf(h) : e[1] # NoLine
                     /\ Len(h.added_lines) + Len(h.context_lines) = h.new_count
                     /\ Len(h.removed_lines) + Len(h.context_lines) = h.old_count
----
\* embed_text: properties

\* C26: embed_text returns exactly one vector per input text, in the order
\* of the inputs, for every input list (output position i belongs to input
\* i), and an empty list for an empty input list.
C26_OneVectorPerInputInOrder ==
    (em_returned # None /\ em_returned[1].ok)
        => /\ Len(em_returned[1].value[1]) = Len(em_texts)
           /\ \A i \in DOMAIN em_texts : em_returned[1].value[1][i] = Embedding(em_texts[i])
----
\* Concurrent reviews: properties

\* The locals of run r hold only what follows from its own URL, the
\* provider's answer to its own fetch and the replies to its own stages
OwnDataOnly(r) ==
    LET c == crv[r]
    IN  /\ c.pr # None
              => c.pr = fetch_pull_request(c.platform[1], c.pr_url, c.answer[1],
                                           bitbucket_client).value
        /\ c.context # None => c.context = Some(_prepare_pr_context(c.pr[1]))
        /\ \A t \in TaskNames : c.task_output[t] \in {NoOutput, ReplyTo(r)}
        /\ c.result # None
              => \/ /\ c.result[1].success
                    /\ c.result[1] = SuccessResult(c.context[1], ReplyTo(r),
                                                   c.platform[1], c.pr_url)
                 \/ /\ ~c.result[1].success
                    /\ c.result[1].url = c.pr_url
                    /\ \/ c.result[1].error \in LLMErrors
                       \/ c.result[1].error = _detect_platform(c.pr_url).error
                       \/ /\ c.answer # None
                          /\ c.result[1].error = c.answer[1].err[1]

\* C25: reviews that run concurrently are data-isolated: under every
\* interleaving of the runs, each run's prepared context, stage outputs and
\* returned result depend only on its own pull request and its own stage
\* results, never on another run's.
C25_ConcurrentReviewsIsolated == \A r \in DOMAIN crv : OwnDataOnly(r)

\* two reviews of different pull requests are in the middle of their stages
\* at the same time, each holding the context of its own pull request and
\* the outputs of its own stages
C25_Witness ==
    /\ crv[1].at = "task" /\ crv[1].task_idx = 3
    /\ crv[2].at = "task" /\ crv[2].task_idx = 2
    /\ crv[1].pr[1].title = "full" /\ crv[2].pr[1].title = "two"
    /\ crv[1].context[1].pr_info.title = "full"
    /\ crv[2].context[1].pr_info.title = "two"
    /\ crv[1].task_output["analysis_task"] = ReplyTo(1)
    /\ crv[1].task_output["retrieval_task"] = ReplyTo(1)
    /\ crv[2].task_output["analysis_task"] = ReplyTo(2)
    /\ crv[2].task_output["retrieval_task"] = NoOutput
====
